---------------------------- MODULE Spec2Model ----------------------------
(***************************************************************************)
(* Model of the scalar fraud-detection agents: the agent execution state   *)
(* machine (core/adk_core.py), the specialist detectors                    *)
(* (agents/specialists/__init__.py) and the Financial Bodyguard            *)
(* orchestrator (agents/financial_bodyguard.py).                           *)
(*                                                                         *)
(* Text is a sequence of one-character strings, so that str.lower() and    *)
(* the substring test `kw in text` are computed, not assumed.           *)
(* Risk scores are Python floats; a score is held as an integer number of  *)
(* 1/100000 (0.9 is 90000).  The few IEEE-754 double findings of the        *)
(* detectors' arithmetic that differ from the decimal value (0.3 * 3 is    *)
(* 0.8999999999999999) are one unit off the decimal value, see FloatMul    *)
(* and FloatAdd.                                                           *)
(***************************************************************************)
EXTENDS Integers, Sequences, FiniteSets, TLC

\* ------------------------------------------------------------- bounds
\* Longest content, in words of Vocabulary, of the text specifications.
MaxWords == 2
\* Longest trajectory library of the text specifications.
MaxTrajectories == 2

\* Longest findings list handed to _aggregate_results on its own.
MaxFindings == 2

\* --------------------------------------------------------------- text
UpperCase == <<"A","B","C","D","E","F","G","H","I","J","K","L","M","N","O","P","Q","R","S","T","U","V","W","X","Y","Z">>
LowerCase == <<"a","b","c","d","e","f","g","h","i","j","k","l","m","n","o","p","q","r","s","t","u","v","w","x","y","z">>

\* str.lower(), one character
LowerChar(c) ==
    IF \E i \in 1..Len(UpperCase) : UpperCase[i] = c
    THEN LowerCase[CHOOSE i \in 1..Len(UpperCase) : UpperCase[i] = c]
    ELSE c

\* str.lower()
lower(s) == [i \in 1..Len(s) |-> LowerChar(s[i])]

\* Python's `needle in hay` on strings
In(needle, hay) ==
    \E i \in 0..(Len(hay) - Len(needle)) :
        \A j \in 1..Len(needle) : hay[i + j] = needle[j]

\* any(kw in text for kw in kws)
AnyIn(kws, text) == \E k \in 1..Len(kws) : In(kws[k], text)

\* sum(1 for kw in kws if kw in text)
Hits(kws, text) == Cardinality({k \in 1..Len(kws) : In(kws[k], text)})

\* the words the enumerated contents are made of
Vocabulary ==
    << <<"h","e","l","l","o">>, <<"c","o","l","l","e","c","t">>, <<"p","r","i","z","e">>, <<"C","B","I">>, <<"a","r","r","e","s","t">>,
       <<"p","a","y">>, <<"K","Y","C">>, <<"u","p","d","a","t","e">>, <<"f","o","r","e","x">>, <<"l","o","a","n">>, <<"h","u","r","r","y">> >>

RECURSIVE Join(_)
\* " ".join(words)
Join(ws) ==
    IF ws = <<>> THEN <<>>
    ELSE IF Len(ws) = 1 THEN Vocabulary[ws[1]]
    ELSE Vocabulary[ws[1]] \o <<" ">> \o Join(Tail(ws))

\* every content of at most MaxWords words
Contents ==
    { Join(ws) : ws \in UNION { [1..n -> 1..Len(Vocabulary)] : n \in 0..MaxWords } }

\* ------------------------------------------------- dicts and floats
\* Python's None (a record, so that it compares with trajectory dicts)
None == [id |-> "None"]

\* dict.get(key, default)
Get(d, key, default) == IF key \in DOMAIN d THEN d[key] ELSE default

\* ------------------------------------------- FinancialBodyguardOrchestrator
\* the order in which _route_to_agents tests the five keyword sets
RoutingOrder == <<"upi", "phishing", "impersonation", "document", "investment">>

\* the keyword set that sends content to a specialist
RoutingKeywords(agent) ==
    CASE agent = "upi" ->
           << <<"u","p","i">>, <<"c","o","l","l","e","c","t">>, <<"p","a","y">>, <<"g","p","a","y">>, <<"p","h","o","n","e","p","e">>, <<"p","a","y","t","m">>,
              <<"q","r">>, <<"U+20B9">>, <<"r","s">> >>
      [] agent = "phishing" ->
           << <<"k","y","c">>, <<"u","p","d","a","t","e">>, <<"v","e","r","i","f","y">>, <<"b","a","n","k">>, <<"a","p","k">>, <<"d","o","w","n","l","o","a","d">>,
              <<"l","i","n","k">>, <<"c","l","i","c","k">> >>
      [] agent = "impersonation" ->
           << <<"p","o","l","i","c","e">>, <<"c","b","i">>, <<"e","d">>, <<"a","r","r","e","s","t">>, <<"w","a","r","r","a","n","t">>, <<"c","u","s","t","o","m","s">>,
              <<"p","a","r","c","e","l">> >>
      [] agent = "document" ->
           << <<"l","o","a","n">>, <<"e","m","i">>, <<"i","n","s","u","r","a","n","c","e">>, <<"p","o","l","i","c","y">>, <<"p","r","e","m","i","u","m">>,
              <<"i","n","t","e","r","e","s","t"," ","r","a","t","e">> >>
      [] agent = "investment" ->
           << <<"i","n","v","e","s","t">>, <<"r","e","t","u","r","n">>, <<"p","r","o","f","i","t">>, <<"t","r","a","d","i","n","g">>, <<"c","r","y","p","t","o">>,
              <<"f","o","r","e","x">>, <<"d","o","u","b","l","e">> >>

RoutingDefault == <<"upi", "phishing", "impersonation">>

RECURSIVE RouteLoop(_, _, _)
\* the five `if any(...): agents.append(...)` statements, in order
RouteLoop(content_lower, i, agents) ==
    IF i > Len(RoutingOrder) THEN agents
    ELSE RouteLoop(content_lower, i + 1,
                   IF AnyIn(RoutingKeywords(RoutingOrder[i]), content_lower)
                   THEN Append(agents, RoutingOrder[i])
                   ELSE agents)

\* mutant: the fallback to the default trio is left out
RouteWithoutDefault(text) == RouteLoop(lower(text), 1, <<>>)

_route_to_agents(text) ==
    LET agents == RouteLoop(lower(text), 1, <<>>)
    IN  IF agents = <<>> THEN RoutingDefault ELSE agents

\* mutant: LOW starts above 0, as in the detectors' own bands
ThreatLevelDetectorBands(max_risk) ==
    IF max_risk >= 90000 THEN "CRITICAL"
    ELSE IF max_risk >= 70000 THEN "HIGH"
    ELSE IF max_risk >= 40000 THEN "MEDIUM"
    ELSE IF max_risk > 0 THEN "LOW"
    ELSE "SAFE"

\* the orchestrator's band table
ThreatLevelOf(max_risk) ==
    IF max_risk >= 90000 THEN "CRITICAL"
    ELSE IF max_risk >= 70000 THEN "HIGH"
    ELSE IF max_risk >= 40000 THEN "MEDIUM"
    ELSE IF max_risk > 10000 THEN "LOW"
    ELSE "SAFE"

RECURSIVE MaxRisk(_, _, _)
\* max(r.get('risk_score', 0) for r in results), results not empty
MaxRisk(findings, i, best) ==
    IF i > Len(findings) THEN best
    ELSE LET r == Get(findings[i], "risk_score", 0)
         IN  MaxRisk(findings, i + 1, IF r > best THEN r ELSE best)

RECURSIVE PrimaryThreatLast(_, _, _)
\* mutant: no break, the last result whose risk is max_risk wins
PrimaryThreatLast(findings, i, max_risk) ==
    IF i > Len(findings) THEN "None"
    ELSE LET later == PrimaryThreatLast(findings, i + 1, max_risk)
         IN  IF later # "None" THEN later
             ELSE IF Get(findings[i], "risk_score", 0) = max_risk
                  THEN Get(findings[i], "agent", "unknown")
                  ELSE "None"

RECURSIVE PrimaryThreat(_, _, _)
\* the loop that stops at the first result whose risk is max_risk
PrimaryThreat(findings, i, max_risk) ==
    IF i > Len(findings) THEN "None"
    ELSE IF Get(findings[i], "risk_score", 0) = max_risk
         THEN Get(findings[i], "agent", "unknown")
         ELSE PrimaryThreat(findings, i + 1, max_risk)

_aggregate_results(findings) ==
    IF findings = <<>>
    THEN [threat_level |-> "SAFE", risk_score |-> 0, primary_threat |-> "None"]
    ELSE LET max_risk == MaxRisk(findings, 2, Get(findings[1], "risk_score", 0))
         IN  [threat_level |-> ThreatLevelOf(max_risk),
              risk_score |-> max_risk,
              primary_threat |-> PrimaryThreat(findings, 1, max_risk),
              agent_count |-> Len(findings),
              all_risks |-> [i \in 1..Len(findings) |->
                                Get(findings[i], "risk_score", 0)]]

RECURSIVE MatchLoop(_, _, _, _, _)
\* the scan of self.trajectories that keeps the best (trajectory, count)
MatchLoop(library, content_lower, i, best_match, best_score) ==
    IF i > Len(library) THEN <<best_match, best_score>>
    ELSE LET red_flags == Get(library[i], "red_flags", <<>>)
             matches == Cardinality({k \in 1..Len(red_flags) :
                                       In(lower(red_flags[k]), content_lower)})
         IN  IF matches > best_score
             THEN MatchLoop(library, content_lower, i + 1,
                            library[i], matches)
             ELSE MatchLoop(library, content_lower, i + 1,
                            best_match, best_score)

\* mutant: one overlapping red flag is enough
MatchTrajectoryOneFlag(library, text) ==
    LET best == MatchLoop(library, lower(text), 1, None, 0)
    IN  IF best[2] >= 1 THEN best[1] ELSE None

_match_trajectory(library, text) ==
    LET best == MatchLoop(library, lower(text), 1, None, 0)
    IN  IF best[2] >= 2 THEN best[1] ELSE None

ElderInstruction == "Please show this to a younger family member"

\* mutant: only users older than 60 count as elderly
RecommendationsAbove60(threat_level, risk_score, user_age) ==
    IF threat_level = "CRITICAL" /\ user_age > 60
    THEN <<ElderInstruction,
           "STOP! Do NOT proceed with this transaction!",
           "Do NOT share any OTP, PIN, or password",
           "Call Cyber Crime Helpline: 1930",
           "Inform a trusted family member immediately",
           "If you've shared any details, call your bank NOW">>
    ELSE <<"No immediate threat detected",
           "Always protect your OTP and PIN",
           "Stay alert for future suspicious messages">>

_generate_recommendations(threat_level, risk_score, user_age) ==
    LET is_elderly == user_age >= 60
    IN  IF threat_level = "CRITICAL"
        THEN LET recs == << "STOP! Do NOT proceed with this transaction!",
                            "Do NOT share any OTP, PIN, or password",
                            "Call Cyber Crime Helpline: 1930",
                            "Inform a trusted family member immediately",
                            "If you've shared any details, call your bank NOW" >>
             IN  IF is_elderly THEN <<ElderInstruction>> \o recs ELSE recs
        ELSE IF threat_level = "HIGH"
        THEN << "This appears to be a scam - do not proceed",
                "Do not click any links in this message",
                "Verify sender through official channels only",
                "Take time to verify - genuine matters can wait" >>
        ELSE IF threat_level = "MEDIUM"
        THEN << "Exercise caution before proceeding",
                "Verify the sender's identity",
                "Contact official helpline to confirm" >>
        ELSE << "No immediate threat detected",
                "Always protect your OTP and PIN",
                "Stay alert for future suspicious messages" >>

\* the fixed (summary, hindi) pair of a tier; the Hindi texts are named
SummaryTemplate(threat_level) ==
    IF threat_level = "CRITICAL"
    THEN << "CRITICAL THREAT! This is almost certainly a scam. Do NOT proceed!",
            "hindi: CRITICAL, helpline 1930" >>
    ELSE IF threat_level = "HIGH"
    THEN << "HIGH RISK detected. Strong indicators of fraud found.",
            "hindi: HIGH" >>
    ELSE IF threat_level = "MEDIUM"
    THEN << "CAUTION advised. Some suspicious elements found.",
            "hindi: MEDIUM" >>
    ELSE << "LOW RISK. No major threats detected.", "hindi: LOW" >>

_generate_summaries(agg, trajectory) ==
    LET t == SummaryTemplate(agg.threat_level)
    IN  IF trajectory # None
        THEN << t[1] \o "\n\nMatched scam pattern: "
                     \o Get(trajectory, "name", "Unknown"),
                IF Get(trajectory, "hindi_warning", "") # ""
                THEN t[2] \o "\n\n" \o trajectory.hindi_warning
                ELSE t[2] >>
        ELSE t

\* ---------------------------------------------------- float arithmetic
\* a * n for a float literal a (in 1/100000) and a small integer n; the
\* products whose IEEE-754 double is not the double of the decimal value
\* differ from it by one unit
FloatMul(a, n) ==
    IF a = 30000 /\ n = 3 THEN 89999          \* 0.3 * 3 = 0.8999999999999999
    ELSE IF a = 5000 /\ n = 3 THEN 15001      \* 0.05 * 3 = 0.15000000000000002
    ELSE IF a = 5000 /\ n = 6 THEN 30001      \* 0.05 * 6 = 0.30000000000000004
    ELSE IF a = 5000 /\ n = 7 THEN 35001      \* 0.05 * 7 = 0.35000000000000003
    ELSE IF a = 20000 /\ n = 3 THEN 60001     \* 3 * 0.2 = 0.6000000000000001
    ELSE a * n

\* x + y for two floats, with the sums that round away from the decimal
FloatAdd(x, y) ==
    IF x = 30000 /\ y = 35000 THEN 64999      \* 0.3 + 0.35 = 0.6499999999999999
    ELSE IF x = 64999 /\ y = 25000 THEN 89999 \* ... + 0.25 = 0.8999999999999999
    ELSE IF x = 90000 /\ y = 5000 THEN 95001  \* 0.9 + 0.05 = 0.9500000000000001
    ELSE IF x = 92000 /\ y = 5000 THEN 97001  \* 0.92 + 0.05 = 0.9700000000000001
    ELSE x + y

\* the first argument, whatever the bound
Uncapped(a, b) == a

Min(a, b) == IF a <= b THEN a ELSE b

\* --------------------------------------------------------- regex pieces
Digits == <<"0","1","2","3","4","5","6","7","8","9">>

IsDigit(c) == \E i \in 1..Len(Digits) : Digits[i] = c

\* the literal occurs in text at offset i (0-based)
At(literal, text, i) ==
    /\ i + Len(literal) <= Len(text)
    /\ \A j \in 1..Len(literal) : text[i + j] = literal[j]

\* re.search of a pattern that is a literal, or literal.*literal; the
\* pattern is given as the tuple of its literals (no newline in the text)
ReSearch(pieces, text) ==
    IF Len(pieces) = 1 THEN In(pieces[1], text)
    ELSE \E i \in 0..Len(text) :
            /\ At(pieces[1], text, i)
            /\ \E j \in (i + Len(pieces[1]))..Len(text) : At(pieces[2], text, j)

RECURSIVE SkipWhile(_, _, _)
\* the offset after the longest run, from offset i, of digits (cls = "d")
\* or of blanks (cls = "s")
SkipWhile(cls, text, i) ==
    IF i < Len(text) /\ (IF cls = "d" THEN IsDigit(text[i + 1]) ELSE text[i + 1] = " ")
    THEN SkipWhile(cls, text, i + 1)
    ELSE i

RECURSIVE DigitsValue(_, _, _, _)
\* int() of the digits text[i+1..j], continuing from acc
DigitsValue(text, i, j, acc) ==
    IF i >= j THEN acc
    ELSE DigitsValue(text, i + 1, j,
                     10 * acc + (CHOOSE d \in 0..9 : Digits[d + 1] = text[i + 1]))

\* -------------------------------------------------------- UPIFraudAgent
UPIPatterns ==
    << [name |-> "collect_scam",
        keywords |-> << <<"c","o","l","l","e","c","t">>, <<"r","e","q","u","e","s","t">>, <<"c","l","a","i","m">>, <<"r","e","c","e","i","v","e">>, <<"a","c","c","e","p","t","i","n","g">> >>,
        indicators |-> << <<"w","o","n">>, <<"l","o","t","t","e","r","y">>, <<"p","r","i","z","e">>, <<"c","a","s","h","b","a","c","k">>, <<"r","e","w","a","r","d">>, <<"r","e","f","u","n","d">> >>,
        risk |-> 95000],
       [name |-> "qr_fraud",
        keywords |-> << <<"s","c","a","n">>, <<"q","r">>, <<"c","o","d","e">> >>,
        indicators |-> << <<"r","e","c","e","i","v","e">>, <<"p","a","y","m","e","n","t">>, <<"m","o","n","e","y">>, <<"c","r","e","d","i","t">> >>,
        risk |-> 92000],
       [name |-> "fake_refund",
        keywords |-> << <<"r","e","f","u","n","d">>, <<"r","e","v","e","r","s","a","l">>, <<"p","e","n","d","i","n","g">>, <<"f","a","i","l","e","d">> >>,
        indicators |-> << <<"u","p","i"," ","p","i","n">>, <<"e","n","t","e","r">>, <<"v","e","r","i","f","y">>, <<"c","o","n","f","i","r","m">> >>,
        risk |-> 90000],
       [name |-> "marketplace",
        keywords |-> << <<"a","r","m","y">>, <<"c","r","p","f">>, <<"p","o","s","t","i","n","g">>, <<"b","u","y","e","r">>, <<"s","e","l","l","e","r">> >>,
        indicators |-> << <<"q","r">>, <<"l","i","n","k">>, <<"p","a","y">>, <<"r","e","c","e","i","v","e">> >>,
        risk |-> 88000] >>

UrgencyWords ==
    << <<"u","r","g","e","n","t">>, <<"i","m","m","e","d","i","a","t","e","l","y">>, <<"n","o","w">>, <<"h","u","r","r","y">>, <<"f","a","s","t">>, <<"l","i","m","i","t","e","d">>,
       <<"e","x","p","i","r","e">>, <<"l","a","s","t"," ","c","h","a","n","c","e">> >>

\* risk of a pattern with the given hits: base * (0.7 + 0.15 k + 0.15 i),
\* capped at 1.0 (the product is the base itself for k = i = 1 and above
\* 1.0 otherwise, in doubles as in decimals)
UPIPatternRisk(base, keyword_hits, indicator_hits) ==
    Min((base * (70 + 15 * keyword_hits + 15 * indicator_hits)) \div 100, 100000)

RECURSIVE UPIPatternLoop(_, _, _, _)
\* the loop over self.patterns: <<detected_patterns, max_risk>>
UPIPatternLoop(content_lower, p, detected, max_risk) ==
    IF p > Len(UPIPatterns) THEN <<detected, max_risk>>
    ELSE LET pat == UPIPatterns[p]
             keyword_hits == Hits(pat.keywords, content_lower)
             indicator_hits == Hits(pat.indicators, content_lower)
             risk == UPIPatternRisk(pat.risk, keyword_hits, indicator_hits)
         IN  IF keyword_hits > 0 /\ indicator_hits > 0
             THEN UPIPatternLoop(content_lower, p + 1,
                     Append(detected, [name |-> pat.name, risk |-> risk,
                                       keywords |-> keyword_hits,
                                       indicators |-> indicator_hits]),
                     IF risk > max_risk THEN risk ELSE max_risk)
             ELSE UPIPatternLoop(content_lower, p + 1, detected, max_risk)

\* UPIFraudAgent.analyze (red_flags, action, hindi and matched_trajectories,
\* which feed no score, are left out of the dict)
UPIFraudAgent_analyze(text) ==
    LET content_lower == lower(text)
        scan == UPIPatternLoop(content_lower, 1, <<>>, 0)
        urgency_hits == Hits(UrgencyWords, content_lower)
        max_risk == IF urgency_hits > 0
                    THEN Min(FloatAdd(scan[2], FloatMul(5000, urgency_hits)), 100000)
                    ELSE scan[2]
    IN  [agent |-> "upi_fraud_agent",
         risk_score |-> max_risk,
         threat_level |-> IF max_risk >= 90000 THEN "CRITICAL"
                          ELSE IF max_risk >= 70000 THEN "HIGH"
                          ELSE IF max_risk >= 40000 THEN "MEDIUM"
                          ELSE "LOW",
         patterns_detected |-> scan[1],
         urgency_pressure |-> urgency_hits > 0]

\* --------------------------------------------------------- PhishingAgent
\* self.phishing_indicators; a regex a.*b is the pair of its literals
PhishingIndicators ==
    << [name |-> "apk_download", risk |-> 98000,
        patterns |-> << << <<".","a","p","k">> >>, << <<"d","o","w","n","l","o","a","d">>, <<"a","p","p">> >>,
                        << <<"i","n","s","t","a","l","l">>, <<"a","p","p">> >> >>],
       [name |-> "shortened_url", risk |-> 85000,
        patterns |-> << << <<"b","i","t",".","l","y">> >>, << <<"t","i","n","y","u","r","l">> >>, << <<"g","o","o",".","g","l">> >>,
                        << <<"t",".","c","o">> >>, << <<"s","h","o","r","t",".">> >> >>],
       [name |-> "fake_bank", risk |-> 90000,
        patterns |-> << << <<"s","b","i">>, <<"u","p","d","a","t","e">> >>, << <<"h","d","f","c">>, <<"k","y","c">> >>,
                        << <<"i","c","i","c","i">>, <<"v","e","r","i","f","y">> >>, << <<"a","x","i","s">>, <<"c","o","n","f","i","r","m">> >> >>],
       [name |-> "account_threat", risk |-> 80000,
        patterns |-> << << <<"b","l","o","c","k">>, <<"a","c","c","o","u","n","t">> >>, << <<"s","u","s","p","e","n","d">> >>,
                        << <<"f","r","e","e","z","e">> >>, << <<"d","e","a","c","t","i","v","a","t","e">> >>,
                        << <<"c","l","o","s","e">>, <<"a","c","c","o","u","n","t">> >> >>],
       [name |-> "screen_share", risk |-> 95000,
        patterns |-> << << <<"a","n","y","d","e","s","k">> >>, << <<"t","e","a","m","v","i","e","w","e","r">> >>,
                        << <<"q","u","i","c","k","s","u","p","p","o","r","t">> >>, << <<"s","c","r","e","e","n">>, <<"s","h","a","r","e">> >> >>],
       [name |-> "otp_request", risk |-> 96000,
        patterns |-> << << <<"s","h","a","r","e">>, <<"o","t","p">> >>, << <<"e","n","t","e","r">>, <<"o","t","p">> >>,
                        << <<"s","e","n","d">>, <<"o","t","p">> >>, << <<"o","t","p">>, <<"v","e","r","i","f","i","c","a","t","i","o","n">> >> >>] >>

RECURSIVE PhishingLoop(_, _, _, _)
\* the loop over self.phishing_indicators: <<detected, max_risk>>
PhishingLoop(content_lower, p, detected, max_risk) ==
    IF p > Len(PhishingIndicators) THEN <<detected, max_risk>>
    ELSE LET ind == PhishingIndicators[p]
         IN  IF \E k \in 1..Len(ind.patterns) : ReSearch(ind.patterns[k], content_lower)
             THEN PhishingLoop(content_lower, p + 1,
                               Append(detected, [indicator |-> ind.name, risk |-> ind.risk]),
                               IF ind.risk > max_risk THEN ind.risk ELSE max_risk)
             ELSE PhishingLoop(content_lower, p + 1, detected, max_risk)

\* PhishingAgent.analyze
PhishingAgent_analyze(text) ==
    LET content_lower == lower(text)
        scan == PhishingLoop(content_lower, 1, <<>>, 0)
        kyc == /\ In(<<"k","y","c">>, content_lower)
               /\ (In(<<"u","p","d","a","t","e">>, content_lower) \/ In(<<"v","e","r","i","f","y">>, content_lower))
               /\ scan[2] < 80000
        max_risk == IF kyc THEN 85000 ELSE scan[2]
    IN  [agent |-> "phishing_agent",
         risk_score |-> max_risk,
         threat_level |-> IF max_risk >= 90000 THEN "CRITICAL"
                          ELSE IF max_risk >= 70000 THEN "HIGH"
                          ELSE "LOW",
         indicators |-> IF kyc
                        THEN Append(scan[1], [indicator |-> "kyc_urgency", risk |-> 85000])
                        ELSE scan[1],
         is_phishing |-> max_risk >= 70000]

\* ---------------------------------------------------- ImpersonationAgent
AuthorityKeywords ==
    << <<"p","o","l","i","c","e">>, <<"c","b","i">>, <<"e","d">>, <<"e","n","f","o","r","c","e","m","e","n","t"," ","d","i","r","e","c","t","o","r","a","t","e">>, <<"c","r","i","m","e"," ","b","r","a","n","c","h">>,
       <<"c","y","b","e","r"," ","c","e","l","l">>, <<"i","n","c","o","m","e"," ","t","a","x">>, <<"c","u","s","t","o","m","s">>, <<"n","a","r","c","o","t","i","c","s">>, <<"n","c","b">>,
       <<"i","n","t","e","r","p","o","l">>, <<"f","i","r">>, <<"w","a","r","r","a","n","t">>, <<"c","o","u","r","t"," ","o","r","d","e","r">>, <<"l","e","g","a","l"," ","n","o","t","i","c","e">> >>

ThreatIndicators ==
    << <<"a","r","r","e","s","t">>, <<"c","u","s","t","o","d","y">>, <<"j","a","i","l">>, <<"p","r","i","s","o","n">>, <<"w","a","r","r","a","n","t">>, <<"c","a","s","e"," ","a","g","a","i","n","s","t">>,
       <<"c","h","a","r","g","e","s">>, <<"i","n","v","e","s","t","i","g","a","t","i","o","n">>, <<"q","u","e","s","t","i","o","n","i","n","g">>, <<"m","o","n","e","y"," ","l","a","u","n","d","e","r","i","n","g">>,
       <<"i","l","l","e","g","a","l">>, <<"s","u","s","p","i","c","i","o","u","s"," ","a","c","t","i","v","i","t","y">> >>

MoneyDemands ==
    << <<"p","a","y">>, <<"t","r","a","n","s","f","e","r">>, <<"f","i","n","e">>, <<"p","e","n","a","l","t","y">>, <<"f","e","e">>, <<"d","e","p","o","s","i","t">>,
       <<"s","e","c","u","r","i","t","y">>, <<"b","a","i","l">>, <<"U+20B9">>, <<"r","s">>, <<"r","u","p","e","e">>, <<"l","a","k","h">>, <<"c","r","o","r","e">> >>

VideoCallTerms ==
    << <<"v","i","d","e","o"," ","c","a","l","l">>, <<"w","h","a","t","s","a","p","p"," ","v","i","d","e","o">>, <<"o","n","l","i","n","e"," ","a","r","r","e","s","t">>, <<"d","i","g","i","t","a","l"," ","a","r","r","e","s","t">> >>

\* ImpersonationAgent.analyze (the hit lists are kept as counts)
ImpersonationAgent_analyze(text) ==
    LET content_lower == lower(text)
        authority_hits == Hits(AuthorityKeywords, content_lower)
        threat_hits == Hits(ThreatIndicators, content_lower)
        money_hits == Hits(MoneyDemands, content_lower)
        r1 == IF authority_hits > 0
              THEN FloatAdd(0, FloatMul(30000, Min(authority_hits, 3))) ELSE 0
        r2 == IF threat_hits > 0
              THEN FloatAdd(r1, FloatMul(25000, Min(threat_hits, 3))) ELSE r1
        r3 == IF money_hits > 0 THEN FloatAdd(r2, 35000) ELSE r2
        r4 == IF AnyIn(VideoCallTerms, content_lower) THEN FloatAdd(r3, 25000) ELSE r3
        risk_score == Min(r4, 100000)
    IN  [agent |-> "impersonation_agent",
         risk_score |-> risk_score,
         threat_level |-> IF risk_score >= 80000 THEN "CRITICAL"
                          ELSE IF risk_score >= 50000 THEN "HIGH"
                          ELSE "LOW",
         authority_claims |-> authority_hits,
         threats_made |-> threat_hits,
         money_demands |-> money_hits,
         is_impersonation |-> risk_score >= 70000]

\* -------------------------------------------------- DocumentAnalystAgent
LoanRedFlags ==
    << [issue |-> "Floating Rate",
        keywords |-> << <<"f","l","o","a","t","i","n","g">>, <<"v","a","r","i","a","b","l","e"," ","r","a","t","e">>, <<"l","i","n","k","e","d"," ","t","o"," ","r","e","p","o">>,
                        <<"s","u","b","j","e","c","t"," ","t","o"," ","c","h","a","n","g","e">> >>],
       [issue |-> "Foreclosure Penalty",
        keywords |-> << <<"f","o","r","e","c","l","o","s","u","r","e"," ","c","h","a","r","g","e">>, <<"p","r","e","p","a","y","m","e","n","t"," ","p","e","n","a","l","t","y">>,
                        <<"e","a","r","l","y"," ","c","l","o","s","u","r","e"," ","f","e","e">> >>],
       [issue |-> "Hidden Fees",
        keywords |-> << <<"p","r","o","c","e","s","s","i","n","g"," ","f","e","e">>, <<"d","o","c","u","m","e","n","t","a","t","i","o","n"," ","c","h","a","r","g","e">>,
                        <<"v","e","r","i","f","i","c","a","t","i","o","n"," ","f","e","e">> >>],
       [issue |-> "Forced Insurance",
        keywords |-> << <<"m","a","n","d","a","t","o","r","y"," ","i","n","s","u","r","a","n","c","e">>, <<"c","r","e","d","i","t"," ","p","r","o","t","e","c","t">>, <<"l","o","a","n"," ","c","o","v","e","r">> >>],
       [issue |-> "Penal Interest",
        keywords |-> << <<"p","e","n","a","l"," ","i","n","t","e","r","e","s","t">>, <<"d","e","f","a","u","l","t"," ","c","h","a","r","g","e">>,
                        <<"l","a","t","e"," ","p","a","y","m","e","n","t"," ","p","e","n","a","l","t","y">> >>] >>

InsuranceRedFlags ==
    << [issue |-> "Pre Existing",
        keywords |-> << <<"p","r","e","-","e","x","i","s","t","i","n","g">>, <<"p","r","i","o","r"," ","c","o","n","d","i","t","i","o","n">>, <<"e","x","i","s","t","i","n","g"," ","d","i","s","e","a","s","e">> >>],
       [issue |-> "Waiting Period",
        keywords |-> << <<"w","a","i","t","i","n","g"," ","p","e","r","i","o","d">>, <<"c","o","o","l","i","n","g"," ","o","f","f">>, <<"d","o","r","m","a","n","t"," ","p","e","r","i","o","d">> >>],
       [issue |-> "Sub Limits",
        keywords |-> << <<"s","u","b","-","l","i","m","i","t">>, <<"r","o","o","m"," ","r","e","n","t"," ","c","a","p">>, <<"p","e","r"," ","d","a","y"," ","m","a","x","i","m","u","m">> >>],
       [issue |-> "Co Payment",
        keywords |-> << <<"c","o","-","p","a","y">>, <<"c","o","-","i","n","s","u","r","a","n","c","e">>, <<"b","o","r","n","e"," ","b","y"," ","i","n","s","u","r","e","d">> >>],
       [issue |-> "Exclusions",
        keywords |-> << <<"n","o","t"," ","c","o","v","e","r","e","d">>, <<"e","x","c","l","u","d","e","d">>, <<"e","x","c","e","p","t","i","o","n">>,
                        <<"d","o","e","s"," ","n","o","t"," ","c","o","v","e","r">> >>] >>

\* the offset after the optional point that follows the digits ending at d1
AfterPoint(text, d1) ==
    IF d1 < Len(text) /\ text[d1 + 1] = "." THEN d1 + 1 ELSE d1

\* \s*% matches at offset i
PercentAfter(text, i) ==
    \E s \in {SkipWhile("s", text, i)} : s < Len(text) /\ text[s + 1] = "%"

\* the match whose first digits end at d1 and whose group ends at d2: the
\* greedy one, or after backtracking the one that stops at d1
RateMatchFrom(text, i, d1, d2) ==
    IF d1 = i THEN <<>>
    ELSE IF PercentAfter(text, d2) THEN <<d1, AfterPoint(text, d1), d2>>
    ELSE IF PercentAfter(text, d1) THEN <<d1, d1, d1>>
    ELSE <<>>

\* the match of (\d+\.?\d*)\s*% that starts at offset i, as <<end of the
\* integer part, start of the fraction, end of group 1>>, or <<>> when none
\* starts there
RateMatchAt(text, i) ==
    RateMatchFrom(text, i, SkipWhile("d", text, i),
                  SkipWhile("d", text, AfterPoint(text, SkipWhile("d", text, i))))

\* the offset of the leftmost match
LeftmostRate(text) ==
    CHOOSE i \in 0..(Len(text) - 1) :
        /\ RateMatchAt(text, i) # <<>>
        /\ \A t \in 0..(i - 1) : RateMatchAt(text, t) = <<>>

\* group 1 of the match m at offset i, as
\* [whole |-> digits before the point, frac |-> digits after it]
RateGroup(text, i, m) ==
    [whole |-> DigitsValue(text, i, m[1], 0),
     frac |-> SubSeq(text, m[2] + 1, m[3])]

\* float(rate_match.group(1)) of the leftmost match, or None
InterestRate(text) ==
    IF \A i \in 0..(Len(text) - 1) : RateMatchAt(text, i) = <<>> THEN None
    ELSE RateGroup(text, LeftmostRate(text),
                   RateMatchAt(text, LeftmostRate(text)))

\* the comparison with 15 made inclusive
RateAtLeast15(rate) == rate # None /\ rate.whole >= 15

\* `interest_rate and interest_rate > 15`
RateAbove15(rate) ==
    /\ rate # None
    /\ \/ rate.whole > 15
       \/ rate.whole = 15 /\ \E k \in 1..Len(rate.frac) : rate.frac[k] # "0"

RECURSIVE IssueLoop(_, _, _, _)
\* the loop over the red-flag categories: one issue per category, for the
\* first of its keywords found
IssueLoop(red_flags, content_lower, c, found_issues) ==
    IF c > Len(red_flags) THEN found_issues
    ELSE LET kws == red_flags[c].keywords
             hit == {k \in 1..Len(kws) : In(lower(kws[k]), content_lower)}
         IN  IF hit = {} THEN IssueLoop(red_flags, content_lower, c + 1, found_issues)
             ELSE LET k == CHOOSE x \in hit : \A y \in hit : x <= y
                  IN  IssueLoop(red_flags, content_lower, c + 1,
                         Append(found_issues,
                                [issue |-> red_flags[c].issue,
                                 keyword |-> kws[k],
                                 risk |-> IF In(<<"p","e","n","a","l","t","y">>, kws[k])
                                             \/ In(<<"n","o","t"," ","c","o","v","e","r","e","d">>, kws[k])
                                          THEN "HIGH" ELSE "MEDIUM"]))

\* the issues after the rate check
WithRateIssue(flagged, interest_rate) ==
    IF RateAbove15(interest_rate)
    THEN Append(flagged, [issue |-> "High Interest Rate",
                          keyword |-> interest_rate,
                          risk |-> "HIGH"])
    ELSE flagged

\* the dict DocumentAnalystAgent.analyze returns
DocumentFindings(doc_type, found_issues, interest_rate) ==
    [agent |-> "document_agent",
     document_type |-> doc_type,
     issues_found |-> found_issues,
     issue_count |-> Len(found_issues),
     risk_score |-> Min(FloatMul(20000, Len(found_issues)), 100000),
     interest_rate |-> interest_rate]

\* DocumentAnalystAgent.analyze
DocumentAnalystAgent_analyze(text, doc_type) ==
    DocumentFindings(doc_type,
        WithRateIssue(
            IssueLoop(IF doc_type = "loan" THEN LoanRedFlags ELSE InsuranceRedFlags,
                      lower(text), 1, <<>>),
            InterestRate(lower(text))),
        InterestRate(lower(text)))

\* -------------------------------------------------- InvestmentFraudAgent
ScamIndicators ==
    << <<"g","u","a","r","a","n","t","e","e","d"," ","r","e","t","u","r","n","s">>, <<"r","i","s","k","-","f","r","e","e">>, <<"d","o","u","b","l","e"," ","y","o","u","r"," ","m","o","n","e","y">>,
       <<"h","i","g","h"," ","r","e","t","u","r","n","s">>, <<"1","0","0","%"," ","p","r","o","f","i","t">>, <<"f","i","x","e","d"," ","r","e","t","u","r","n">>, <<"n","o"," ","l","o","s","s">>,
       <<"s","u","r","e"," ","p","r","o","f","i","t">>, <<"i","n","c","o","m","e"," ","g","u","a","r","a","n","t","e","e">> >>

RedFlagTerms ==
    << <<"r","e","f","e","r","r","a","l"," ","b","o","n","u","s">>, <<"m","l","m">>, <<"n","e","t","w","o","r","k"," ","m","a","r","k","e","t","i","n","g">>, <<"j","o","i","n","i","n","g"," ","f","e","e">>,
       <<"r","e","g","i","s","t","r","a","t","i","o","n"," ","f","e","e">>, <<"c","r","y","p","t","o"," ","t","r","a","d","i","n","g">>, <<"f","o","r","e","x">>, <<"b","i","n","a","r","y"," ","o","p","t","i","o","n","s">>,
       <<"d","a","i","l","y"," ","p","r","o","f","i","t">> >>

ReturnPeriods == << <<"d","a","i","l","y">>, <<"w","e","e","k","l","y">>, <<"m","o","n","t","h","l","y">>, <<"p","e","r"," ","m","o","n","t","h">> >>

\* re.search(r'(\d+)\s*%\s*(daily|weekly|monthly|per month)', text)
ReturnMatch(text) ==
    \E i \in 0..(Len(text) - 1) :
        LET d == SkipWhile("d", text, i)
            s == SkipWhile("s", text, d)
        IN  /\ d > i
            /\ s < Len(text) /\ text[s + 1] = "%"
            /\ \E k \in 1..Len(ReturnPeriods) :
                  At(ReturnPeriods[k], text, SkipWhile("s", text, s + 1))

\* InvestmentFraudAgent.analyze (the hit lists are kept as counts)
InvestmentFraudAgent_analyze(text) ==
    LET content_lower == lower(text)
        scam_hits == Hits(ScamIndicators, content_lower)
        red_flag_hits == Hits(RedFlagTerms, content_lower)
        r1 == IF scam_hits > 0
              THEN FloatAdd(0, FloatMul(40000, Min(scam_hits, 3))) ELSE 0
        r2 == IF red_flag_hits > 0
              THEN FloatAdd(r1, FloatMul(30000, Min(red_flag_hits, 3))) ELSE r1
        r3 == IF ReturnMatch(content_lower) /\ r2 < 95000 THEN 95000 ELSE r2
        risk_score == Min(r3, 100000)
    IN  [agent |-> "investment_agent",
         risk_score |-> risk_score,
         threat_level |-> IF risk_score >= 80000 THEN "CRITICAL"
                          ELSE IF risk_score >= 50000 THEN "HIGH"
                          ELSE "LOW",
         scam_indicators |-> scam_hits,
         red_flags |-> red_flag_hits,
         is_fraud |-> risk_score >= 70000]

\* ------------------------------------------------------------ BaseAgent
\* An environment env gathers what an execute call reads besides its task:
\*   sub_agents[a]  the ids registered with a, in registration order
\*   delegate[a]    the agents for which a's _should_delegate holds
\*   tools[a]       a's tools property
\*   registry[t]    ToolRegistry._tools: "absent", or how the registered
\*                  function behaves when called, "ok" or "raises"
\*   kind[a]        the class of a, which decides _generate_response
\*   client[a]      a's Gemini client: "none", or how a call ends, "ok" or
\*                  "fails"
\*   fault[a]       the step of a that an override makes raise, or "none"
\*   planned[a]     the delegate id that an override of a's _plan names,
\*                  or "none" where a inherits _plan
\*   error          the message of the exception raised
Steps == {"plan", "delegate", "use_tools", "respond", "verify", "confidence"}

\* an exception raised instead of a value returned
Raised(msg) == [raised |-> msg]

IsRaised(x) == "raised" \in DOMAIN x

\* a predicate that accepts every sub-agent
DelegateToAny(env, a, sub) == TRUE

_should_delegate(env, a, sub) == sub \in env.delegate[a]

\* ToolRegistry.get(tool_name) is not None (and _tool_matches, always True)
ToolSelected(env, tool_name) == env.registry[tool_name] # "absent"

_plan(env, a, task) ==
    IF env.fault[a] = "plan" THEN Raised(env.error)
    ELSE IF env.planned[a] # "none"
    THEN [action |-> "delegate", delegate_to |-> env.planned[a],
          reasoning |-> "Delegating as planned"]
    ELSE LET subs == env.sub_agents[a]
             hit == {i \in 1..Len(subs) : _should_delegate(env, a, subs[i])}
             tools_to_use == SelectSeq(env.tools[a], LAMBDA t : ToolSelected(env, t))
         IN  IF hit # {}
             THEN [action |-> "delegate",
                   delegate_to |-> subs[CHOOSE i \in hit : \A j \in hit : i <= j],
                   reasoning |-> "Delegating for specialized handling"]  \* without agent.name
             ELSE IF tools_to_use # <<>>
             THEN [action |-> "use_tools", use_tools |-> tools_to_use,
                   reasoning |-> "Using tools"]   \* without the names
             ELSE [action |-> "respond", reasoning |-> "Generating direct response"]

\* a loop that gives up at the first tool that does not return
UseToolsUntilFailure(env, tool_names, k, acc) ==
    [results |-> [t \in {tool_names[j] : j \in {i \in 1..Len(tool_names) :
                            \A h \in 1..i : h = i \/ env.registry[tool_names[h]] = "ok"}} |->
                    IF env.registry[t] = "ok" THEN [output |-> t]
                    ELSE [error |-> "tool failed"]],
     invoked |-> SubSeq(tool_names, 1,
                    Cardinality({i \in 1..Len(tool_names) :
                        \A h \in 1..i : h = i \/ env.registry[tool_names[h]] = "ok"}))]

RECURSIVE UseToolsLoop(_, _, _, _)
\* the loop of _use_tools from the k-th name on: ToolRegistry.execute
\* inside the try, a result per tool, an error marker for a tool that
\* raises or is not registered; acc.invoked lists the calls made
UseToolsLoop(env, tool_names, k, acc) ==
    IF k > Len(tool_names) THEN acc
    ELSE UseToolsLoop(env, tool_names, k + 1,
            [results |->
                [t \in DOMAIN acc.results \cup {tool_names[k]} |->
                    IF t # tool_names[k] THEN acc.results[t]
                    ELSE IF env.registry[t] = "ok" THEN [output |-> t]
                    ELSE IF env.registry[t] = "raises" THEN [error |-> "tool failed"]
                    ELSE [error |-> "Tool " \o t \o " not found"]],
             invoked |-> Append(acc.invoked, tool_names[k])])

\* BaseAgent._use_tools: the dict of results by tool name
_use_tools(env, a, task, tool_names) ==
    IF env.fault[a] = "use_tools" THEN Raised(env.error)
    ELSE UseToolsLoop(env, tool_names, 1,
                      [results |-> [t \in {} |-> t], invoked |-> <<>>]).results

\* _generate_response of BaseAgent and its overrides in the specialists
_generate_response(env, a, task) ==
    IF env.fault[a] = "respond" THEN Raised(env.error)
    ELSE CASE env.kind[a] = "upi" ->
                LET local_result == UPIFraudAgent_analyze(task.content)
                IN  IF env.client[a] = "ok" /\ local_result.risk_score > 50000
                    THEN [k \in DOMAIN local_result \cup {"ai_analysis"} |->
                            IF k = "ai_analysis" THEN "response.text"
                            ELSE local_result[k]]
                    ELSE local_result
           [] env.kind[a] = "phishing" -> PhishingAgent_analyze(task.content)
           [] env.kind[a] = "impersonation" -> ImpersonationAgent_analyze(task.content)
           [] env.kind[a] = "document" ->
                DocumentAnalystAgent_analyze(task.content,
                    Get(task.metadata, "document_type", "loan"))
           [] env.kind[a] = "investment" -> InvestmentFraudAgent_analyze(task.content)
           [] OTHER ->
                IF env.client[a] = "ok" THEN [response |-> "response.text"]
                ELSE IF env.client[a] = "fails" THEN [error |-> "generation failed"]
                ELSE [response |-> "fallback"]

_verify(env, a, task, result) ==
    IF env.fault[a] = "verify" THEN Raised(env.error) ELSE result

\* a score that does not look at the result
AlwaysConfident(env, a, result) == [confidence |-> 80000]

\* 0.0 or 0.8; raises when an override does (as [raised |-> msg])
_calculate_confidence(env, a, result) ==
    IF env.fault[a] = "confidence" THEN Raised(env.error)
    ELSE IF "error" \in DOMAIN result THEN [confidence |-> 0]
    ELSE [confidence |-> 80000]

\* a TaskResult left in a status that is not terminal
RunningResult(a, task, msg) ==
    [task_id |-> task.task_id, agent_id |-> a, status |-> "RUNNING",
     result |-> [error |-> msg], confidence |-> 0,
     reasoning |-> "Execution failed: " \o msg]

\* the TaskResult of the except branch of execute
FailedResult(a, task, msg) ==
    [task_id |-> task.task_id, agent_id |-> a, status |-> "FAILED",
     result |-> [error |-> msg], confidence |-> 0,
     reasoning |-> "Execution failed: " \o msg]

\* nested execute calls CPython carries before it raises RecursionError
\* (each level of delegation costs a fixed number of frames)
RecursionLimit == 3

RECURSIVE execute(_, _, _, _)

\* `return result.result` of the sub-agent's TaskResult
Delegated(out) == [result |-> out.returned.result, appended |-> out.appended]

\* agent_id in self.sub_agents
IsRegistered(env, a, agent_id) ==
    \E i \in 1..Len(env.sub_agents[a]) : env.sub_agents[a][i] = agent_id

\* BaseAgent._delegate: the sub-agent's execute and its result dict, or the
\* error marker for an id that is not registered; [result, appended]
_delegate(env, a, task, agent_id, depth) ==
    IF env.fault[a] = "delegate"
    THEN [result |-> Raised(env.error), appended |-> <<>>]
    ELSE IF IsRegistered(env, a, agent_id)
    THEN IF depth >= RecursionLimit
         THEN [result |-> Raised("maximum recursion depth exceeded"),
               appended |-> <<>>]
         ELSE Delegated(execute(env, agent_id, task, depth + 1))
    ELSE [result |-> [error |-> "Agent " \o agent_id \o " not found"],
          appended |-> <<>>]

\* step 2 of execute: delegate, use tools, or respond
RunPlan(env, a, task, plan, depth) ==
    IF "delegate_to" \in DOMAIN plan
    THEN _delegate(env, a, task, plan.delegate_to, depth)
    ELSE IF "use_tools" \in DOMAIN plan
    THEN [result |-> _use_tools(env, a, task, plan.use_tools), appended |-> <<>>]
    ELSE [result |-> _generate_response(env, a, task), appended |-> <<>>]

\* steps 3 and 4 of execute, and its except branch: verify, score, build
\* the TaskResult and append it to the history
Complete(env, a, task, plan, verified_result, confidence, appended) ==
    IF IsRaised(verified_result)
    THEN [returned |-> FailedResult(a, task, verified_result.raised),
          appended |-> appended]
    ELSE IF IsRaised(confidence)
    THEN [returned |-> FailedResult(a, task, confidence.raised),
          appended |-> appended]
    ELSE [returned |-> [task_id |-> task.task_id, agent_id |-> a,
                        status |-> "COMPLETED", result |-> verified_result,
                        confidence |-> confidence.confidence,
                        reasoning |-> plan.reasoning],
          appended |-> Append(appended,
                        <<a, [task_id |-> task.task_id, agent_id |-> a,
                              status |-> "COMPLETED", result |-> verified_result,
                              confidence |-> confidence.confidence,
                              reasoning |-> plan.reasoning]>>)]

VerifyStep(env, a, task, result) ==
    IF IsRaised(result) THEN result ELSE _verify(env, a, task, result)

ConfidenceStep(env, a, verified_result) ==
    IF IsRaised(verified_result) THEN verified_result
    ELSE _calculate_confidence(env, a, verified_result)

AfterPlan(env, a, task, plan, ran) ==
    Complete(env, a, task, plan,
             VerifyStep(env, a, task, ran.result),
             ConfidenceStep(env, a, VerifyStep(env, a, task, ran.result)),
             ran.appended)

\* BaseAgent.execute: [returned |-> the TaskResult, appended |-> the
\* <<agent, TaskResult>> pairs appended to task histories, in order].
\* execution_time, a wall-clock reading, is left out of the TaskResult.
execute(env, a, task, depth) ==
    IF IsRaised(_plan(env, a, task))
    THEN [returned |-> FailedResult(a, task, _plan(env, a, task).raised),
          appended |-> <<>>]
    ELSE AfterPlan(env, a, task, _plan(env, a, task),
                   RunPlan(env, a, task, _plan(env, a, task), depth))

\* -------------------------------------- FinancialBodyguardOrchestrator
\* self.specialists: routing key -> agent id, in construction order
SpecialistKeys == <<"upi", "phishing", "impersonation", "document", "investment">>

Specialists ==
    [upi |-> "upi_fraud_agent", phishing |-> "phishing_agent",
     impersonation |-> "impersonation_agent", document |-> "document_agent",
     investment |-> "investment_agent"]

SpecialistIds == {Specialists[k] : k \in DOMAIN Specialists}

\* the tools property of each class; only UPIFraudAgent declares any
AgentTools(a) ==
    IF a = "upi_fraud_agent" THEN <<"upi_pattern_matcher", "risk_calculator">>
    ELSE <<>>

ToolNames == {"upi_pattern_matcher", "risk_calculator"}

\* agent.analyze(content) as analyze calls it
SpecialistAnalyze(key, text) ==
    CASE key = "upi" -> UPIFraudAgent_analyze(text)
      [] key = "phishing" -> PhishingAgent_analyze(text)
      [] key = "impersonation" -> ImpersonationAgent_analyze(text)
      [] key = "document" -> DocumentAnalystAgent_analyze(text, "loan")
      [] key = "investment" -> InvestmentFraudAgent_analyze(text)

\* the Task analyze_async builds for one routed specialist
AnalysisTask(key, text, user_age) ==
    [task_id |-> "analysis_" \o key, task_type |-> "fraud_detection",
     content |-> text, metadata |-> [x \in {} |-> x],
     context |-> [session_id |-> "live", user_age_group |-> user_age]]  \* f"{user_age}+"

\* what a specialist's execute reads: the registry and the Gemini client;
\* the specialists have no sub-agents and override no step
SpecialistEnv(registry, gemini) ==
    [sub_agents |-> [a \in SpecialistIds |-> <<>>],
     delegate |-> [a \in SpecialistIds |-> {}],
     tools |-> [a \in SpecialistIds |-> AgentTools(a)],
     registry |-> registry,
     kind |-> [a \in SpecialistIds |->
                CHOOSE k \in DOMAIN Specialists : Specialists[k] = a],
     client |-> [a \in SpecialistIds |-> gemini],
     fault |-> [a \in SpecialistIds |-> "none"],
     planned |-> [a \in SpecialistIds |-> "none"],
     error |-> ""]

\* the tail shared by analyze and analyze_async once the trajectory is
\* matched: advise, summarise, and build the ProtectionResult (without its
\* timestamp, a clock reading)
ProtectionResult(matched_trajectory, user_age, agent_results) ==
    LET agg == _aggregate_results(agent_results)
        summaries == _generate_summaries(agg, matched_trajectory)
    IN  [threat_level |-> agg.threat_level,
         risk_score |-> agg.risk_score,
         primary_threat |-> agg.primary_threat,
         summary |-> summaries[1],
         hindi_summary |-> summaries[2],
         recommendations |->
            _generate_recommendations(agg.threat_level, agg.risk_score, user_age),
         agent_findings |-> agent_results,
         matched_trajectory |-> matched_trajectory,
         emergency_action |-> agg.threat_level = "CRITICAL"]

\* the loop of analyze over the routed specialists
AnalyzeLoop(text) ==
    LET agents_to_use == _route_to_agents(text)
    IN  [i \in 1..Len(agents_to_use) |-> SpecialistAnalyze(agents_to_use[i], text)]

\* the stats update at the end of analyze
UpdateStats(st, threat_level) ==
    [st EXCEPT
        !.threats_detected = IF threat_level \in {"HIGH", "CRITICAL"}
                             THEN @ + 1 ELSE @,
        !.critical_blocks = IF threat_level = "CRITICAL" THEN @ + 1 ELSE @]

\* the results in the order the specialists completed
GatherAsCompleted(slots, order) == [j \in 1..Len(order) |-> slots[order[j]]]

\* asyncio.gather: the results in the order the awaitables were passed
gather(slots, order) == [i \in 1..Len(slots) |-> slots[i]]

\* ------------------------------------------------ trajectory library
\* data/fraud_trajectories.json is read once by _load_trajectories; these
\* are the entries the enumerated libraries are made of
TrajectoryPool ==
    << [id |-> "T001", name |-> "Digital Arrest",
        red_flags |-> << <<"c","b","i">>, <<"A","r","r","e","s","t">>, <<"p","a","y">> >>,
        hindi_warning |-> "hindi: digital arrest",
        detection_agent |-> "impersonation_agent"],
       [id |-> "T002", name |-> "Collect Request Scam",
        red_flags |-> << <<"c","o","l","l","e","c","t">>, <<"P","r","i","z","e">> >>,
        hindi_warning |-> "hindi: collect request",
        detection_agent |-> "upi_fraud_agent"],
       [id |-> "T003", name |-> "Fake Officer",
        red_flags |-> << <<"a","r","r","e","s","t">>, <<"C","B","I">>, <<"f","o","r","e","x">> >>,
        detection_agent |-> "impersonation_agent"] >>

\* every library of at most MaxTrajectories distinct pool entries, in any
\* order (the empty one is what a missing data file gives)
Libraries ==
    UNION { { [i \in 1..n |-> TrajectoryPool[g[i]]] :
                g \in {h \in [1..n -> 1..Len(TrajectoryPool)] :
                         \A i, j \in 1..n : i # j => h[i] # h[j]} } :
            n \in 0..MaxTrajectories }

\* -------------------------------------------------------------- state
VARIABLES
    applied,        \* the operations of a text/aggregation run applied so far
    content,        \* the content string handed to the orchestrator
    trajectories,   \* FinancialBodyguardOrchestrator.trajectories
    route_result,   \* what _route_to_agents returned
    match_result,   \* what _match_trajectory returned
    results,        \* the findings handed to _aggregate_results
    aggregated,     \* what _aggregate_results returned
    tool_registry,  \* ToolRegistry._tools: tool name -> "absent", "ok", "raises"
    sub_agents,     \* BaseAgent.sub_agents of each agent, in registration order
    task_history,   \* BaseAgent.task_history of each agent
    calls,          \* the execute calls made: agent, task, environment
    returned,       \* what each of those calls returned
    client,         \* the agents' Gemini client: "none", or "ok"/"fails"
    stats,          \* FinancialBodyguardOrchestrator.stats
    pending,        \* the analyze_async call awaiting its specialists
    verdicts,       \* the verdicts returned so far, with their inputs
    tally,          \* how many verdicts were returned, per tier class
    threads,        \* the threads running analyze: position and locals
    age,       \* the age handed to analyze
    recommendations,\* what _generate_recommendations returned
    summaries,      \* what _generate_summaries returned
    detected,       \* what each specialist's analyze returned on the content
    verdict,        \* the ProtectionResult built from the consulted specialists
    mao_agents,     \* MultiAgentOrchestrator.agents: the registered agent ids
    execution_log,  \* MultiAgentOrchestrator.execution_log
    context_metadata,\* task.context.metadata, shared by the derived sub-tasks
    mao_call,       \* the execute_* call in progress: its position and locals
    mao_returns     \* what the finished execute_* calls returned

textVars == <<content, route_result, match_result>>
aggVars == <<results, aggregated>>
execVars == <<tool_registry, sub_agents, task_history, calls, returned>>
orchVars == <<client, stats, pending, verdicts, tally>>
adviceVars == <<age, recommendations, summaries>>
detectVars == <<detected, verdict>>
maoVars == <<mao_agents, execution_log, context_metadata, mao_call, mao_returns>>
extVars == <<adviceVars, detectVars, maoVars>>
vars == <<applied, trajectories, textVars, aggVars, execVars, orchVars, threads, extVars>>

ZeroStats == [total_analyses |-> 0, threats_detected |-> 0, critical_blocks |-> 0]

\* --------------------------------------------- the routines on their own
AggIdle == results = <<>> /\ aggregated = None
TextIdle == content = <<>> /\ route_result = <<>> /\ match_result = None

\* no advice asked for, no detector run, no MultiAgentOrchestrator
\* constructed
ExtIdle ==
    /\ mao_agents = {}
    /\ execution_log = <<>>
    /\ context_metadata = <<>>
    /\ mao_call = None
    /\ mao_returns = <<>>
    /\ age = 45
    /\ recommendations = <<>>
    /\ summaries = <<>>
    /\ detected = <<>>
    /\ verdict = None

\* no agent constructed, nothing registered
ExecIdle ==
    /\ tool_registry = [t \in ToolNames |-> "absent"]
    /\ sub_agents = <<>>
    /\ task_history = <<>>
    /\ calls = <<>>
    /\ returned = <<>>

\* no orchestrator constructed
OrchIdle ==
    /\ client = "none"
    /\ stats = ZeroStats
    /\ pending = None
    /\ verdicts = {}
    /\ tally = ZeroStats
    /\ threads = <<>>

\* a content string; nothing called yet
RouteInit ==
    /\ applied = {}
    /\ content \in Contents
    /\ trajectories = <<>>
    /\ route_result = <<>>
    /\ match_result = None
    /\ AggIdle
    /\ ExtIdle
    /\ ExecIdle
    /\ OrchIdle

RouteToAgents ==
    /\ "route" \notin applied
    /\ route_result' = _route_to_agents(content)
    /\ applied' = applied \cup {"route"}
    /\ UNCHANGED <<content, trajectories, match_result, aggVars, extVars, execVars, orchVars, threads>>

SpecRoute == RouteInit /\ [][RouteToAgents]_vars

\* a content string and a loaded library; nothing called yet
MatchInit ==
    /\ applied = {}
    /\ content \in Contents
    /\ trajectories \in Libraries
    /\ route_result = <<>>
    /\ match_result = None
    /\ AggIdle
    /\ ExtIdle
    /\ ExecIdle
    /\ OrchIdle

MatchTrajectory ==
    /\ "match" \notin applied
    /\ match_result' = _match_trajectory(trajectories, content)
    /\ applied' = applied \cup {"match"}
    /\ UNCHANGED <<content, trajectories, route_result, aggVars, extVars, execVars, orchVars, threads>>

SpecMatch == MatchInit /\ [][MatchTrajectory]_vars

\* the specialists whose keyword set fires on the content
Fired ==
    LET content_lower == lower(content)
    IN  { a \in {RoutingOrder[i] : i \in 1..Len(RoutingOrder)} :
            \E k \in 1..Len(RoutingKeywords(a)) :
                In(RoutingKeywords(a)[k], content_lower) }

\* place of a specialist in the declared order
OrderOf(a) == CHOOSE i \in 1..Len(RoutingOrder) : RoutingOrder[i] = a

\* C9: _route_to_agents never returns an empty list; it returns the
\* specialists whose keyword set fires, each once and in the declared order
\* upi, phishing, impersonation, document, investment, and exactly
\* [upi, phishing, impersonation] when no keyword set fires.
C9_RouteNeverEmpty ==
    "route" \in applied =>
        LET fired == Fired
        IN  /\ route_result # <<>>
            /\ \A i, j \in 1..Len(route_result) :
                   i < j => OrderOf(route_result[i]) < OrderOf(route_result[j])
            /\ fired # {} =>
                   {route_result[i] : i \in 1..Len(route_result)} = fired
            /\ fired = {} =>
                   route_result = <<"upi", "phishing", "impersonation">>

\* no keyword set fires and the default trio was returned
C9_Witness ==
    /\ "route" \in applied
    /\ Fired = {}
    /\ content # <<>>
    /\ route_result = <<"upi", "phishing", "impersonation">>

\* number of red-flag phrases of library entry i found in the content
Overlap(i) ==
    LET rf == trajectories[i].red_flags
    IN  Cardinality({k \in 1..Len(rf) : In(lower(rf[k]), lower(content))})

\* C10: _match_trajectory returns a trajectory only if at least 2 of its
\* red-flag phrases occur in the content, case-insensitively; content that
\* overlaps every trajectory in at most 1 phrase yields no match; among the
\* trajectories with the best count the earliest registered is returned.
C10_MatchNeedsTwo ==
    "match" \in applied =>
        LET n == [i \in 1..Len(trajectories) |-> Overlap(i)]
        IN  /\ match_result # None =>
                  \E i \in 1..Len(trajectories) :
                     /\ trajectories[i] = match_result
                     /\ n[i] >= 2
                     /\ \A j \in 1..Len(trajectories) : n[j] <= n[i]
                     /\ \A j \in 1..(i - 1) : n[j] < n[i]
            /\ (\A j \in 1..Len(trajectories) : n[j] <= 1)
                  => match_result = None
            /\ (\E j \in 1..Len(trajectories) : n[j] >= 2)
                  => match_result # None

\* two trajectories share the best count and the earlier one was returned
C10_Witness ==
    /\ "match" \in applied
    /\ Len(trajectories) = 2
    /\ Overlap(1) = Overlap(2)
    /\ Overlap(1) >= 2
    /\ match_result = trajectories[1]

\* risk scores at and next to the edges of the orchestrator's bands
EdgeRisks ==
    {0, 10000, 10001, 39999, 40000, 69999, 70000, 89999, 90000, 100000}

\* what a specialist's analyze returns, as far as _aggregate_results reads
\* it, and a dict with neither 'risk_score' nor 'agent' (the tool results
\* or the error marker that BaseAgent.execute can hand to analyze_async)
FindingPool ==
    { [agent |-> a, risk_score |-> r, threat_level |-> t] :
        a \in {"upi_fraud_agent", "phishing_agent"},
        r \in EdgeRisks,
        t \in {"LOW", "CRITICAL"} }
    \cup { [error |-> "boom"] }

AggInit ==
    /\ applied = {}
    /\ results \in UNION { [1..n -> FindingPool] : n \in 0..MaxFindings }
    /\ aggregated = None
    /\ ExtIdle
    /\ trajectories = <<>>
    /\ TextIdle
    /\ ExecIdle
    /\ OrchIdle

AggregateResults ==
    /\ "aggregate" \notin applied
    /\ aggregated' = _aggregate_results(results)
    /\ applied' = applied \cup {"aggregate"}
    /\ UNCHANGED <<results, trajectories, textVars, extVars, execVars, orchVars, threads>>

SpecAgg == AggInit /\ [][AggregateResults]_vars

\* the risk score _aggregate_results reads from finding i
RiskAt(i) == IF "risk_score" \in DOMAIN results[i] THEN results[i].risk_score ELSE 0

\* C2: for a non-empty findings list the aggregated risk score is the
\* maximum of the findings' scores, and primary_threat is the agent id of
\* the first finding, in list order, whose score equals that maximum.
C2_MaxAndFirst ==
    ("aggregate" \in applied /\ results # <<>>) =>
        /\ \A i \in 1..Len(results) : RiskAt(i) <= aggregated.risk_score
        /\ \E i \in 1..Len(results) :
              /\ RiskAt(i) = aggregated.risk_score
              /\ \A j \in 1..(i - 1) : RiskAt(j) < RiskAt(i)
              /\ aggregated.primary_threat =
                    (IF "agent" \in DOMAIN results[i]
                     THEN results[i].agent ELSE "unknown")

\* two findings of different agents tie at the maximum; the first is named
C2_Witness ==
    /\ "aggregate" \in applied
    /\ Len(results) = 2
    /\ RiskAt(1) = RiskAt(2)
    /\ RiskAt(1) > 0
    /\ "agent" \in DOMAIN results[1]
    /\ "agent" \in DOMAIN results[2]
    /\ results[1].agent # results[2].agent
    /\ aggregated.primary_threat = results[1].agent

\* C4: the aggregated tier is a function of the aggregated score alone:
\* >= 0.9 CRITICAL, >= 0.7 HIGH, >= 0.4 MEDIUM, > 0.1 LOW, else SAFE,
\* whatever the findings' own threat_level says; no findings give SAFE
\* with risk 0.
C4_BandTable ==
    "aggregate" \in applied =>
        LET s == aggregated.risk_score
            t == aggregated.threat_level
        IN  /\ t = "CRITICAL" <=> s >= 90000
            /\ t = "HIGH" <=> (s >= 70000 /\ s < 90000)
            /\ t = "MEDIUM" <=> (s >= 40000 /\ s < 70000)
            /\ t = "LOW" <=> (s > 10000 /\ s < 40000)
            /\ t = "SAFE" <=> s <= 10000
            /\ results = <<>> => (t = "SAFE" /\ s = 0)

\* the only finding calls itself LOW and the aggregated tier is CRITICAL
C4_Witness ==
    /\ "aggregate" \in applied
    /\ Len(results) = 1
    /\ "threat_level" \in DOMAIN results[1]
    /\ results[1].threat_level = "LOW"
    /\ aggregated.threat_level = "CRITICAL"

\* ------------------------------------- recommendations and summaries
\* ages on both sides of the `user_age >= 60` test
AdviceAges == {0, 45, 59, 60, 61, 68}

\* what _match_trajectory can hand on: an entry of the library (with or
\* without a hindi_warning, with or without a name) or None
AdviceTrajectories ==
    {TrajectoryPool[i] : i \in 1..Len(TrajectoryPool)}
    \cup {[id |-> "T004", red_flags |-> << <<"k","y","c">>, <<"u","p","d","a","t","e">> >>,
           hindi_warning |-> "hindi: kyc update"]}

\* analyze after _aggregate_results and _match_trajectory: the findings of
\* at most one specialist are aggregated, a trajectory is matched or not
AdviceInit ==
    /\ applied = {}
    /\ results \in UNION { [1..n -> FindingPool] : n \in 0..1 }
    /\ aggregated = _aggregate_results(results)
    /\ match_result \in {None} \cup AdviceTrajectories
    /\ age \in AdviceAges
    /\ recommendations = <<>>
    /\ summaries = <<>>
    /\ detected = <<>>
    /\ verdict = None
    /\ mao_agents = {} /\ execution_log = <<>> /\ context_metadata = <<>>
    /\ mao_call = None /\ mao_returns = <<>>
    /\ content = <<>>
    /\ route_result = <<>>
    /\ trajectories = <<>>
    /\ ExecIdle
    /\ OrchIdle

GenerateRecommendations ==
    /\ "recommend" \notin applied
    /\ recommendations' = _generate_recommendations(aggregated.threat_level,
                                                    aggregated.risk_score, age)
    /\ applied' = applied \cup {"recommend"}
    /\ UNCHANGED <<trajectories, textVars, aggVars, age, summaries,
                   detectVars, maoVars, execVars, orchVars, threads>>

GenerateSummaries ==
    /\ "summarise" \notin applied
    /\ summaries' = _generate_summaries(aggregated, match_result)
    /\ applied' = applied \cup {"summarise"}
    /\ UNCHANGED <<trajectories, textVars, aggVars, age, recommendations,
                   detectVars, maoVars, execVars, orchVars, threads>>

AdviceNext == GenerateRecommendations \/ GenerateSummaries

SpecAdvise == AdviceInit /\ [][AdviceNext]_vars

\* the list without a leading elder-specific instruction
WithoutElder(recs) ==
    IF recs # <<>> /\ recs[1] = ElderInstruction THEN Tail(recs) ELSE recs

\* C11: the recommendation list is a fixed list given by the tier alone
\* (the same for every risk score and every age), except that the
\* elder-specific instruction is its first entry exactly when age >= 60 and
\* the tier is CRITICAL; a CRITICAL list has at least 5 entries, and for
\* age < 60 the list never begins with the elder-specific instruction.
C11_TierAloneElderFirst ==
    "recommend" \in applied =>
        /\ \A r \in EdgeRisks, a \in AdviceAges :
              WithoutElder(recommendations)
                 = WithoutElder(_generate_recommendations(aggregated.threat_level, r, a))
        /\ recommendations[1] = ElderInstruction
              <=> (age >= 60 /\ aggregated.threat_level = "CRITICAL")
        /\ aggregated.threat_level = "CRITICAL" => Len(recommendations) >= 5
        /\ age < 60 => recommendations[1] # ElderInstruction

\* a CRITICAL verdict for a user of exactly 60: six entries, elder first
C11_Witness ==
    /\ "recommend" \in applied
    /\ age = 60
    /\ aggregated.threat_level = "CRITICAL"
    /\ Len(recommendations) = 6
    /\ recommendations[1] = ElderInstruction

\* `needle in hay` on Python strings kept as strings
Contains(hay, needle) ==
    \E i \in 1..(Len(hay) - Len(needle) + 1) :
        SubSeq(hay, i, i + Len(needle) - 1) = needle

\* C20: with no trajectory matched both summaries are the fixed template
\* pair of the tier; with a trajectory matched, each of the two summaries is
\* its template followed by a block that carries the trajectory's name and
\* its localized warning.
C20_NameAndWarningInBoth ==
    "summarise" \in applied =>
        IF match_result = None
        THEN summaries = SummaryTemplate(aggregated.threat_level)
        ELSE \A k \in 1..2 :
                /\ SubSeq(summaries[k], 1,
                          Len(SummaryTemplate(aggregated.threat_level)[k]))
                      = SummaryTemplate(aggregated.threat_level)[k]
                /\ "name" \in DOMAIN match_result
                      => Contains(summaries[k], match_result.name)
                /\ "hindi_warning" \in DOMAIN match_result
                      => Contains(summaries[k], match_result.hindi_warning)

\* what the summaries of a matched trajectory do carry: the English one the
\* name, the Hindi one the warning
SummariesAsBuilt ==
    ("summarise" \in applied /\ match_result # None) =>
        /\ summaries[1] = SummaryTemplate(aggregated.threat_level)[1]
                             \o "\n\nMatched scam pattern: "
                             \o (IF "name" \in DOMAIN match_result
                                 THEN match_result.name ELSE "Unknown")
        /\ summaries[2] = (IF "hindi_warning" \in DOMAIN match_result
                           THEN SummaryTemplate(aggregated.threat_level)[2]
                                   \o "\n\n" \o match_result.hindi_warning
                           ELSE SummaryTemplate(aggregated.threat_level)[2])

\* ------------------------------------------------ the five detectors
\* The texts of the text specifications, and texts that reach the caps and
\* the bonuses of the detectors: three authority and two threat words with
\* a money demand and a video call, capped urgency with a matched pattern,
\* authority claims scored between the two CRITICAL thresholds, and loan
\* documents with red-flag keywords and percentages below, at and above 15.
DetectContents ==
    Contents \cup
    { <<"C","B","I"," ","w","a","r","r","a","n","t">>, <<"p","o","l","i","c","e"," ","a","r","r","e","s","t"," ","j","a","i","l">>, <<"C","B","I"," ","a","r","r","e","s","t"," ","v","i","d","e","o"," ","c","a","l","l">>,
      <<"C","B","I"," ","E","D"," ","p","o","l","i","c","e"," ","a","r","r","e","s","t"," ","w","a","r","r","a","n","t"," ","p","a","y"," ","v","i","d","e","o"," ","c","a","l","l">>, <<"h","u","r","r","y"," ","c","o","l","l","e","c","t"," ","p","r","i","z","e">>,
      <<"c","o","l","l","e","c","t"," ","r","e","q","u","e","s","t"," ","p","r","i","z","e">>,
      <<"f","o","r","e","x"," ","g","u","a","r","a","n","t","e","e","d"," ","r","e","t","u","r","n","s"," ","d","o","u","b","l","e"," ","m","o","n","e","y"," ","h","u","r","r","y">>,
      <<"l","o","a","n"," ","f","l","o","a","t","i","n","g"," ","v","a","r","i","a","b","l","e"," ","r","a","t","e"," ","1","6","%">>, <<"l","o","a","n"," ","p","r","o","c","e","s","s","i","n","g"," ","f","e","e"," ","1","5",".","0","%">>,
      <<"l","o","a","n"," ","1","2","%"," ","t","h","e","n"," ","2","0","%">>, <<"l","o","a","n"," ","1","5",".","5"," ","%"," ","p",".","a",".">>,
      <<"l","o","a","n"," ","f","l","o","a","t","i","n","g"," ","p","r","e","p","a","y","m","e","n","t"," ","p","e","n","a","l","t","y"," ","p","r","o","c","e","s","s","i","n","g"," ","f","e","e">>,
      <<"F","l","o","a","t","i","n","g"," ","p","r","e","p","a","y","m","e","n","t"," ","p","e","n","a","l","t","y"," ","p","r","o","c","e","s","s","i","n","g"," ","f","e","e"," ","l","o","a","n"," ","c","o","v","e","r"," ","p","e","n","a","l"," ","i","n","t","e","r","e","s","t"," ","1","8",".","5","%"," ","p",".","a",".">> }

DetectInit ==
    /\ applied = {}
    /\ content \in DetectContents
    /\ trajectories = <<>>
    /\ route_result = <<>>
    /\ match_result = None
    /\ AggIdle
    /\ ExtIdle
    /\ ExecIdle
    /\ OrchIdle

\* agent.analyze(content) of one specialist
Detect(key) ==
    /\ key \notin DOMAIN detected
    /\ detected' = [k \in DOMAIN detected \cup {key} |->
                      IF k = key THEN SpecialistAnalyze(key, content)
                      ELSE detected[k]]
    /\ UNCHANGED <<applied, trajectories, textVars, aggVars, adviceVars, verdict,
                   maoVars, execVars, orchVars, threads>>

\* FinancialBodyguardOrchestrator.analyze up to its ProtectionResult: the
\* routed specialists are consulted and their findings aggregated
Consult ==
    /\ verdict = None
    /\ verdict' = ProtectionResult(_match_trajectory(trajectories, content), age,
                                   AnalyzeLoop(content))
    /\ UNCHANGED <<applied, trajectories, textVars, aggVars, adviceVars, detected,
                   maoVars, execVars, orchVars, threads>>

DetectNext ==
    \/ \E key \in DOMAIN Specialists : Detect(key)
    \/ Consult

SpecDetect == DetectInit /\ [][DetectNext]_vars

\* C17: for each of the five detectors and every text, the risk score
\* returned lies in [0,1] after the urgency bonus, the video-call bonus and
\* the capped hit counts are applied, and so does the aggregated risk score
\* of every verdict.
C17_RiskInUnitInterval ==
    /\ \A key \in DOMAIN detected :
          detected[key].risk_score >= 0 /\ detected[key].risk_score <= 100000
    /\ verdict # None => verdict.risk_score >= 0 /\ verdict.risk_score <= 100000

\* the caps were needed: the impersonation detector has cut a sum above 1 down
\* to 1 and the verdict built on it scores 1
C17_Witness ==
    /\ content = <<"C","B","I"," ","E","D"," ","p","o","l","i","c","e"," ","a","r","r","e","s","t"," ","w","a","r","r","a","n","t"," ","p","a","y"," ","v","i","d","e","o"," ","c","a","l","l">>
    /\ "impersonation" \in DOMAIN detected
    /\ detected.impersonation.risk_score = 100000
    /\ detected.impersonation.authority_claims > 3
    /\ verdict # None
    /\ verdict.risk_score = 100000

\* C18: every detector, given empty content, returns risk score 0 and threat
\* tier SAFE.
C18_EmptyIsSafe ==
    content = <<>> =>
        \A key \in DOMAIN detected :
            /\ detected[key].risk_score = 0
            /\ "threat_level" \in DOMAIN detected[key]
            /\ detected[key].threat_level = "SAFE"

\* what the detectors return for empty content: risk score 0, and LOW as the
\* tier where they report one; only the aggregated verdict is SAFE
EmptyAsBuilt ==
    content = <<>> =>
        /\ \A key \in DOMAIN detected :
              /\ detected[key].risk_score = 0
              /\ Get(detected[key], "threat_level", "LOW") = "LOW"
        /\ verdict # None => verdict.threat_level = "SAFE" /\ verdict.risk_score = 0

\* C19: whenever the impersonation specialist is among the consulted
\* specialists and its risk score is at least 0.8, the aggregated verdict's
\* tier is CRITICAL and its emergency flag is set.
C19_ImpersonationCritical ==
    verdict # None =>
        \A i \in 1..Len(verdict.agent_findings) :
            (/\ verdict.agent_findings[i].agent = "impersonation_agent"
             /\ verdict.agent_findings[i].risk_score >= 80000) =>
                /\ verdict.threat_level = "CRITICAL"
                /\ verdict.emergency_action

\* the tier of the verdict follows the aggregator's bands, whose CRITICAL
\* starts at 0.9, and the emergency flag follows the tier
VerdictBandsAsBuilt ==
    verdict # None =>
        /\ verdict.threat_level = "CRITICAL" <=> verdict.risk_score >= 90000
        /\ verdict.emergency_action <=> verdict.threat_level = "CRITICAL"
        /\ \A i \in 1..Len(verdict.agent_findings) :
              verdict.agent_findings[i].risk_score <= verdict.risk_score

\* the red-flag categories of a loan document with a keyword in the text
FlaggedCategories(text) ==
    {c \in 1..Len(LoanRedFlags) : AnyIn(LoanRedFlags[c].keywords, lower(text))}

\* the extracted percentage is strictly greater than 15
StrictlyAbove15(rate) ==
    /\ rate # None
    /\ \/ rate.whole > 15
       \/ rate.whole = 15 /\ DigitsValue(rate.frac, 0, Len(rate.frac), 0) > 0

\* C21: the document detector's risk score is min(0.2 x issue_count, 1.0)
\* (as a float product), where issue_count counts one issue for each
\* red-flag category with a keyword in the text, plus one 'High Interest
\* Rate' issue that is present if and only if a percentage is extracted
\* from the text and it is strictly greater than 15.
C21_DocumentRisk ==
    "document" \in DOMAIN detected =>
        \A found \in {detected.document} :
            /\ found.risk_score = Min(FloatMul(20000, found.issue_count), 100000)
            /\ found.issue_count = Len(found.issues_found)
            /\ found.issue_count
                  = Cardinality(FlaggedCategories(content))
                    + (IF StrictlyAbove15(found.interest_rate) THEN 1 ELSE 0)
            /\ \A c \in FlaggedCategories(content) :
                  Cardinality({k \in 1..Len(found.issues_found) :
                     found.issues_found[k].issue = LoanRedFlags[c].issue}) = 1
            /\ StrictlyAbove15(found.interest_rate)
                  <=> \E k \in 1..Len(found.issues_found) :
                         found.issues_found[k].issue = "High Interest Rate"

\* a loan text with two keywords of one category and 16%: one issue for the
\* category, one for the rate, risk 0.4
C21_Witness ==
    /\ content = <<"l","o","a","n"," ","f","l","o","a","t","i","n","g"," ","v","a","r","i","a","b","l","e"," ","r","a","t","e"," ","1","6","%">>
    /\ "document" \in DOMAIN detected
    /\ detected.document.issue_count = 2
    /\ detected.document.risk_score = 40000
    /\ detected.document.issues_found[2].issue = "High Interest Rate"

\* the base weight of the named payment pattern
BaseWeight(name) ==
    UPIPatterns[CHOOSE q \in 1..Len(UPIPatterns) : UPIPatterns[q].name = name].risk

\* C28: in the payment/UPI detector a pattern is matched only with at least
\* one keyword hit and one indicator hit; the score of a matched pattern
\* with k keyword hits and i indicator hits is
\* base_weight x min(1, 0.5 + 0.25 k + 0.25 i), so it never exceeds the
\* pattern's base weight; and the risk before the amplifiers is the greatest
\* of the matched patterns' scores.
C28_PatternScore ==
    "upi" \in DOMAIN detected =>
        /\ \A n \in 1..Len(detected["upi"].patterns_detected) :
             \E p \in {detected["upi"].patterns_detected[n]} :
                /\ p.keywords >= 1
                /\ p.indicators >= 1
                /\ p.risk = (BaseWeight(p.name)
                               * Min(100, 50 + 25 * p.keywords + 25 * p.indicators))
                            \div 100
                /\ p.risk <= BaseWeight(p.name)
        /\ ~detected["upi"].urgency_pressure =>
             /\ \A n \in 1..Len(detected["upi"].patterns_detected) :
                  detected["upi"].patterns_detected[n].risk <= detected["upi"].risk_score
             /\ \/ detected["upi"].risk_score = 0
                \/ \E n \in 1..Len(detected["upi"].patterns_detected) :
                      detected["upi"].patterns_detected[n].risk
                          = detected["upi"].risk_score

\* what the detector computes: the base weight times 0.7 + 0.15 k + 0.15 i,
\* and the cap of 1.0 applied to the product
PatternScoreAsBuilt ==
    "upi" \in DOMAIN detected =>
        \A n \in 1..Len(detected["upi"].patterns_detected) :
            \E p \in {detected["upi"].patterns_detected[n]} :
               /\ p.keywords >= 1
               /\ p.indicators >= 1
               /\ p.risk = Min((BaseWeight(p.name)
                                  * (70 + 15 * p.keywords + 15 * p.indicators))
                               \div 100, 100000)
               /\ (p.keywords + p.indicators > 2) => p.risk = 100000
\* ------------------------------------------------- BaseAgent.execute
\* Two agents of the repository: the orchestrator, a BaseAgent that
\* inherits every step, and the UPI specialist, which declares tools and
\* overrides _generate_response.
MaxExecutions == 1

ExecAgents == {"financial_bodyguard", "upi_fraud_agent"}

ExecContents == { <<"h","e","l","l","o">>, <<"c","o","l","l","e","c","t"," ","p","r","i","z","e">> }

Clients == {"none", "ok", "fails"}

\* the environment of an execute call: the registrations as they stand,
\* the agents that _should_delegate accepts as delegates (none by
\* default), the step that an override makes raise, and the delegate ids that overrides of _plan name
ExecEnv(delegating, faulty, step, planned) ==
    [sub_agents |-> sub_agents,
     delegate |-> [a \in ExecAgents |-> delegating],
     tools |-> [a \in ExecAgents |-> AgentTools(a)],
     registry |-> tool_registry,
     kind |-> [a \in ExecAgents |-> IF a = "upi_fraud_agent" THEN "upi" ELSE "base"],
     client |-> [a \in ExecAgents |-> client],
     fault |-> [a \in ExecAgents |-> IF a = faulty THEN step ELSE "none"],
     planned |-> planned,
     error |-> "boom"]

\* the Task a caller builds around a text
ExecTask(text) ==
    [task_id |-> "t1", task_type |-> "general", content |-> text,
     metadata |-> [x \in {} |-> x]]

\* the orchestrator's constructor has registered the specialist
ExecInit ==
    /\ applied = {}
    /\ trajectories = <<>>
    /\ TextIdle
    /\ AggIdle
    /\ ExtIdle
    /\ tool_registry = [t \in ToolNames |-> "absent"]
    /\ sub_agents = [a \in ExecAgents |->
                        IF a = "financial_bodyguard" THEN <<"upi_fraud_agent">>
                        ELSE <<>>]
    /\ task_history = [a \in ExecAgents |-> <<>>]
    /\ calls = <<>>
    /\ returned = <<>>
    /\ client \in Clients
    /\ stats = ZeroStats
    /\ pending = None
    /\ verdicts = {}
    /\ tally = ZeroStats
    /\ threads = <<>>

\* ToolRegistry.register: the name now maps to a function
Register(t, behaviour) ==
    /\ tool_registry' = [tool_registry EXCEPT ![t] = behaviour]
    /\ UNCHANGED <<applied, trajectories, textVars, aggVars, extVars, sub_agents,
                   task_history, calls, returned, orchVars, threads>>

\* BaseAgent.register_sub_agent: a dict entry, which keeps its place when
\* the id is registered again
RegisterSubAgent(a, sub) ==
    /\ sub_agents' =
          [sub_agents EXCEPT ![a] =
              IF \E i \in 1..Len(@) : @[i] = sub THEN @ ELSE Append(@, sub)]
    /\ UNCHANGED <<applied, trajectories, textVars, aggVars, extVars, tool_registry,
                   task_history, calls, returned, orchVars, threads>>

\* the task histories after the appends of one execute call
HistoryAfter(history, pairs) ==
    [a \in DOMAIN history |->
        LET mine == SelectSeq(pairs, LAMBDA p : p[1] = a)
        IN  history[a] \o [i \in 1..Len(mine) |-> mine[i][2]]]

\* the steps of a's execute that fail: the step raises, the tool it runs
\* raises, the Gemini call it makes fails, or the sub-agent it delegates to
\* comes back FAILED
FailedSteps(env, a, task) ==
    LET plan == _plan(env, a, task)
        ran == IF IsRaised(plan) THEN "plan" ELSE plan.action
    IN  {s \in {"plan", "verify", "confidence"} : env.fault[a] = s}
        \cup {s \in {"delegate"} :
                /\ ran = "delegate"
                /\ \/ env.fault[a] = "delegate"
                   \/ /\ IsRegistered(env, a, plan.delegate_to)
                      /\ execute(env, plan.delegate_to, task, 2).returned.status
                            = "FAILED"}
        \cup {s \in {"use_tools"} :
                /\ ran = "use_tools"
                /\ \/ env.fault[a] = "use_tools"
                   \/ \E k \in 1..Len(plan.use_tools) :
                         env.registry[plan.use_tools[k]] = "raises"}
        \cup {s \in {"respond"} :
                /\ ran = "respond"
                /\ \/ env.fault[a] = "respond"
                   \/ env.kind[a] = "base" /\ env.client[a] = "fails"}

\* the id that a's plan names and _delegate does not find among a's
\* sub-agents, as a set: empty when the plan names none or a registered one
NotFound(env, a, task) ==
    {id \in ExecAgents :
        /\ ~IsRaised(_plan(env, a, task))
        /\ "delegate_to" \in DOMAIN _plan(env, a, task)
        /\ _plan(env, a, task).delegate_to = id
        /\ ~IsRegistered(env, a, id)}

\* the tools that a's _use_tools invokes, in order
Invoked(env, a, task) ==
    IF IsRaised(_plan(env, a, task)) \/ env.fault[a] = "use_tools" THEN <<>>
    ELSE IF Get(_plan(env, a, task), "action", "") # "use_tools" THEN <<>>
    ELSE UseToolsLoop(env, _plan(env, a, task).use_tools, 1,
                      [results |-> [t \in {} |-> t], invoked |-> <<>>]).invoked

Execute(a, text, delegating, faulty, step, planned) ==
    /\ Len(calls) < MaxExecutions
    /\ \E env \in {ExecEnv(delegating, faulty, step, planned)}, task \in {ExecTask(text)} :
         \E out \in {execute(env, a, task, 1)} :
           /\ calls' = Append(calls, [agent |-> a, task |-> task,
                                    failed |-> FailedSteps(env, a, task),
                                    not_found |-> NotFound(env, a, task),
                                    plan |-> _plan(env, a, task),
                                    inherited |-> env.planned[a] = "none",
                                    accepted |-> {sub \in ExecAgents :
                                                    /\ IsRegistered(env, a, sub)
                                                    /\ sub \in delegating},
                                    registry |-> env.registry,
                                    overridden |-> {s \in FailedSteps(env, a, task) :
                                                        env.fault[a] = s},
                                    invoked |-> Invoked(env, a, task)])
           /\ returned' = Append(returned, out.returned)
           /\ task_history' = HistoryAfter(task_history, out.appended)
    /\ UNCHANGED <<applied, trajectories, textVars, aggVars, extVars, tool_registry,
                   sub_agents, orchVars, threads>>

ExecNext ==
    \/ \E t \in ToolNames, behaviour \in {"ok", "raises"} : Register(t, behaviour)
    \/ \E a, sub \in ExecAgents : RegisterSubAgent(a, sub)
    \/ \E a \in ExecAgents, text \in ExecContents, delegating \in SUBSET ExecAgents,
          faulty \in ExecAgents, step \in Steps \cup {"none"},
          id \in {"none"} \cup ExecAgents :
            Execute(a, text, delegating, faulty, step,
                    [x \in ExecAgents |-> IF x = a THEN id ELSE "none"])

SpecExec == ExecInit /\ [][ExecNext]_vars

\* C1: execute always returns a TaskResult, and when planning, delegation,
\* tool use, response generation, verification or confidence scoring fails
\* the TaskResult is FAILED with confidence 0.0 and a reasoning that carries
\* the error message.
C1_FailureGivesFailed ==
    \A i \in 1..Len(calls) :
        /\ returned[i].status \in {"COMPLETED", "FAILED"}
        /\ calls[i].failed # {} =>
              /\ returned[i].status = "FAILED"
              /\ returned[i].confidence = 0
              /\ returned[i].reasoning
                    = "Execution failed: " \o returned[i].result.error

\* verification raised and execute turned it into FAILED, history untouched
C1_RaisedStep ==
    \E i \in 1..Len(calls) :
        /\ calls[i].failed = {"verify"}
        /\ returned[i].status = "FAILED"
        /\ returned[i].reasoning = "Execution failed: boom"
        /\ task_history[calls[i].agent] = <<>>

\* a registered tool raised and execute returned COMPLETED at confidence 0.8
C1_ToolRaised ==
    \E i \in 1..Len(calls) :
        /\ calls[i].failed = {"use_tools"}
        /\ returned[i].status = "COMPLETED"
        /\ returned[i].confidence = 80000


\* C14: when an agent's plan names a delegate id that is not one of its
\* registered sub-agents (and no step of the agent raises), execute returns
\* a TaskResult with status FAILED, confidence 0.0 and the 'agent not found'
\* error text as reasoning.
C14_UnknownDelegateFails ==
    \A i \in 1..Len(calls) :
        (calls[i].not_found # {} /\ calls[i].failed = {}) =>
            /\ returned[i].status = "FAILED"
            /\ returned[i].confidence = 0
            /\ \E id \in calls[i].not_found :
                  returned[i].reasoning
                      = "Execution failed: Agent " \o id \o " not found"

\* what execute returns for an unknown delegate id: COMPLETED, confidence
\* 0.0, the plan's reasoning, and the error text in the result payload
UnknownDelegateAsBuilt ==
    \A i \in 1..Len(calls) :
        (calls[i].not_found # {} /\ calls[i].failed = {}) =>
            /\ returned[i].status = "COMPLETED"
            /\ returned[i].confidence = 0
            /\ returned[i].reasoning = "Delegating as planned"
            /\ \E id \in calls[i].not_found :
                  returned[i].result = [error |-> "Agent " \o id \o " not found"]

\* C15: every invocation of execute appends the TaskResult it returns to the
\* agent's task_history, whatever its status, so that the history of an
\* agent is as long as the number of its finished invocations.
C15_EveryResultInHistory ==
    \A i \in 1..Len(calls) :
        /\ Len(task_history[calls[i].agent]) >= 1
        /\ task_history[calls[i].agent][Len(task_history[calls[i].agent])]
              = returned[i]

\* what execute does append: the COMPLETED results, and nothing for a
\* FAILED one
HistoryAsBuilt ==
    \A i \in 1..Len(calls) :
        IF returned[i].status = "COMPLETED"
        THEN /\ task_history[calls[i].agent] # <<>>
             /\ task_history[calls[i].agent][Len(task_history[calls[i].agent])]
                   = returned[i]
        ELSE \A k \in 1..Len(task_history[calls[i].agent]) :
                task_history[calls[i].agent][k] # returned[i]

\* C22: for every registration graph, cyclic ones included, execute returns
\* a TaskResult and an explicit guard bounds the depth of nested delegation,
\* so that delegation never runs into the interpreter's recursion limit.
C22_DelegationGuarded ==
    /\ \A i \in 1..Len(calls) :
          /\ returned[i].status \in {"COMPLETED", "FAILED"}
          /\ Get(returned[i].result, "error", "") # "maximum recursion depth exceeded"
    /\ \A a \in DOMAIN task_history : \A k \in 1..Len(task_history[a]) :
          Get(task_history[a][k].result, "error", "")
              # "maximum recursion depth exceeded"

\* what bounds a delegation cycle: the nested calls go on until the
\* interpreter raises RecursionError, which the innermost execute turns into
\* FAILED and every delegating execute above it passes on as the payload of
\* a COMPLETED result of confidence 0.0
CycleAsBuilt ==
    \A i \in 1..Len(calls) :
        /\ returned[i].status \in {"COMPLETED", "FAILED"}
        /\ Get(returned[i].result, "error", "") = "maximum recursion depth exceeded" =>
              /\ returned[i].status = "COMPLETED"
              /\ returned[i].confidence = 0
              /\ Len(task_history[calls[i].agent]) >= 1

\* C23: every TaskResult that execute returns, and every one kept in a task
\* history, has status COMPLETED or FAILED; PENDING, RUNNING and DELEGATED
\* are never the status of a result, delegation included.
C23_TerminalStatus ==
    /\ \A i \in 1..Len(returned) : returned[i].status \in {"COMPLETED", "FAILED"}
    /\ \A a \in ExecAgents : \A k \in 1..Len(task_history[a]) :
          task_history[a][k].status \in {"COMPLETED", "FAILED"}

\* a delegation to a registered sub-agent whose own execute failed, and one
\* whose sub-agent completed and kept its result
C23_Witness ==
    \E i \in 1..Len(returned) :
        /\ ~IsRaised(calls[i].plan)
        /\ calls[i].plan.action = "delegate"
        /\ calls[i].not_found = {}
        /\ calls[i].overridden = {}
        /\ "delegate" \in calls[i].failed
        /\ returned[i].status = "COMPLETED"

\* C24: on the tool-use path every selected tool is called once, in the
\* order selected; the result has one entry per tool, an error marker under
\* the name of a tool that raised and the output of a tool that returned; a
\* failing tool does not stop the tools after it, and the call ends
\* COMPLETED even when every tool failed.
C24_ToolUse ==
    \A i \in 1..Len(calls) :
        ( /\ ~IsRaised(calls[i].plan)
          /\ calls[i].plan.action = "use_tools"
          /\ calls[i].overridden = {} )
        => /\ calls[i].invoked = calls[i].plan.use_tools
           /\ returned[i].status = "COMPLETED"
           /\ DOMAIN returned[i].result
                = {calls[i].plan.use_tools[k] : k \in 1..Len(calls[i].plan.use_tools)}
           /\ \A t \in DOMAIN returned[i].result :
                 /\ calls[i].registry[t] = "ok" => returned[i].result[t] = [output |-> t]
                 /\ calls[i].registry[t] = "raises"
                       => DOMAIN returned[i].result[t] = {"error"}

\* the first of two tools raises and the second still runs
C24_Witness ==
    \E i \in 1..Len(calls) :
        /\ ~IsRaised(calls[i].plan)
        /\ calls[i].overridden = {}
        /\ calls[i].invoked = <<"upi_pattern_matcher", "risk_calculator">>
        /\ calls[i].registry["upi_pattern_matcher"] = "raises"
        /\ returned[i].result["risk_calculator"] = [output |-> "risk_calculator"]
        /\ returned[i].status = "COMPLETED"

AcceptedAt(i) ==
    {j \in 1..Len(sub_agents[calls[i].agent]) :
        sub_agents[calls[i].agent][j] \in calls[i].accepted}

\* C26: an execute call takes one path, chosen in this order: delegation to
\* the first registered sub-agent the delegation predicate accepts; else
\* tool use with the agent's tools that are in the registry; else the
\* direct response. With the default predicate, which accepts nobody, an
\* agent never delegates, however many sub-agents it has.
C26_PathPriority ==
    \A i \in 1..Len(calls) :
        (calls[i].inherited /\ "plan" \notin calls[i].overridden)
        => /\ calls[i].accepted # {}
                => /\ calls[i].plan.action = "delegate"
                   /\ \E j \in AcceptedAt(i) :
                        /\ \A h \in AcceptedAt(i) : j <= h
                        /\ calls[i].plan.delegate_to = sub_agents[calls[i].agent][j]
                   /\ calls[i].invoked = <<>>
           /\ (calls[i].accepted = {} /\ calls[i].invoked # <<>>)
                => /\ calls[i].plan.action = "use_tools"
                   /\ calls[i].invoked
                        = SelectSeq(AgentTools(calls[i].agent),
                                    LAMBDA t : calls[i].registry[t] # "absent")
           /\ calls[i].plan.action = "respond"
                <=> /\ calls[i].accepted = {}
                    /\ \A k \in 1..Len(AgentTools(calls[i].agent)) :
                          calls[i].registry[AgentTools(calls[i].agent)[k]] = "absent"
           /\ calls[i].plan.action = "use_tools"
                <=> /\ calls[i].accepted = {}
                    /\ \E k \in 1..Len(AgentTools(calls[i].agent)) :
                          calls[i].registry[AgentTools(calls[i].agent)[k]] # "absent"

\* an agent with two registered sub-agents and a predicate that accepts
\* neither responds directly
C26_Witness ==
    \E i \in 1..Len(calls) :
        /\ calls[i].inherited
        /\ calls[i].overridden = {}
        /\ calls[i].accepted = {}
        /\ Len(sub_agents[calls[i].agent]) = 2
        /\ calls[i].plan.action = "respond"
        /\ returned[i].reasoning = "Generating direct response"

\* ------------------------------------------- MultiAgentOrchestrator
\* One orchestrator over the two agents of the execute specification, which
\* runs execute_sequential, execute_parallel and execute_hierarchical calls
\* one at a time, each on a parent task of its own and all on one context.
MaxRuns == 2

MaxOrder == 3

\* the ids a caller may list: the two agents and one that is never registered
MaoIds == ExecAgents \cup {"unlisted_agent"}

\* the agent lists handed to a call: every list of up to two ids, and two
\* lists of MaxOrder ids, one with an unregistered id between two agents
\* and one that names an agent twice
AgentOrders ==
    UNION {[1..n -> MaoIds] : n \in 0..(MaxOrder - 1)}
    \cup {[k \in 1..MaxOrder |->
            <<"financial_bodyguard", "unlisted_agent", "upi_fraud_agent">>[((k - 1) % 3) + 1]],
          [k \in 1..MaxOrder |->
            <<"upi_fraud_agent", "financial_bodyguard", "upi_fraud_agent">>[((k - 1) % 3) + 1]]}

\* the Task of the n-th call
ParentTask(n) ==
    [ExecTask(<< <<"h","e","l","l","o">>, <<"c","o","l","l","e","c","t"," ","p","r","i","z","e">> >>[((n - 1) % 2) + 1])
        EXCEPT !.task_id = "t" \o ToString(n)]

\* Task(task_id=f"{task.task_id}_{agent_id}", ..., parent_task_id=task.task_id)
AgentTask(task, agent_id) ==
    [task_id |-> task.task_id \o "_" \o agent_id, task_type |-> task.task_type,
     content |-> task.content, metadata |-> [x \in {} |-> x],
     parent_task_id |-> task.task_id]

\* the ids of agent_order that name an agent, registered or not
ConstructedOf(agent_order) == SelectSeq(agent_order, LAMBDA id : id \in ExecAgents)

\* the ids of agent_order for which self.agents.get(agent_id) is an agent
RegisteredOf(agent_order) == SelectSeq(agent_order, LAMBDA id : id \in mao_agents)

\* the entry put before the others where the code appends it
LogAtFront(log, agent_id, result) ==
    <<[agent_id |-> agent_id, task_id |-> result.task_id,
       status |-> result.status, confidence |-> result.confidence]>> \o log

\* MultiAgentOrchestrator._log_execution; execution_time and timestamp,
\* wall-clock readings, are left out of the entry
_log_execution(log, agent_id, result) ==
    Append(log, [agent_id |-> agent_id, task_id |-> result.task_id,
                 status |-> IF result.status = "COMPLETED" THEN "completed"
                            ELSE "failed",   \* TaskStatus.value
                 confidence |-> result.confidence])

\* the whole TaskResult stored where the code stores its payload
WithWholeResult(meta, result) ==
    [k \in DOMAIN meta \cup {"previous_result"} |->
        IF k = "previous_result" THEN result ELSE meta[k]]

\* current_context.metadata['previous_result'] = result.result
WithPreviousResult(meta, result) ==
    [k \in DOMAIN meta \cup {"previous_result"} |->
        IF k = "previous_result" THEN result.result ELSE meta[k]]

RECURSIVE LogAll(_, _, _)
\* for result in results: self._log_execution(result.agent_id, result)
LogAll(log, rs, k) ==
    IF k > Len(rs) THEN log
    ELSE LogAll(_log_execution(log, rs[k].agent_id, rs[k]), rs, k + 1)

\* An orchestrator not yet constructed over the agents as the execute
\* specification constructs them. During one execute the orchestrating
\* agent delegates to its sub-agent or not (delegating), and the _verify of one agent raises
\* or none does (faulty).
MaoInit ==
    /\ applied = {}
    /\ trajectories = <<>>
    /\ TextIdle
    /\ AggIdle
    /\ age = 45 /\ recommendations = <<>> /\ summaries = <<>>
    /\ detected = <<>> /\ verdict = None
    /\ tool_registry = [t \in ToolNames |-> "absent"]
    /\ sub_agents = [a \in ExecAgents |->
                        IF a = "financial_bodyguard" THEN <<"upi_fraud_agent">>
                        ELSE <<>>]
    /\ task_history = [a \in ExecAgents |-> <<>>]
    /\ calls = <<>>
    /\ returned = <<>>
    /\ client = "none"
    /\ stats = ZeroStats
    /\ pending = None
    /\ verdicts = {}
    /\ tally = ZeroStats
    /\ threads = <<>>
    /\ mao_agents = {}
    /\ execution_log = <<>>
    /\ context_metadata = [x \in {} |-> x]
    /\ mao_call = None
    /\ mao_returns = <<>>

\* MultiAgentOrchestrator.register_agent
RegisterAgent(a) ==
    /\ mao_call = None
    /\ a \notin mao_agents
    /\ mao_agents' = mao_agents \cup {a}
    /\ UNCHANGED <<applied, trajectories, textVars, aggVars, adviceVars, detectVars,
                   tool_registry, sub_agents, calls, returned, orchVars, threads,
                   task_history, execution_log, context_metadata,
                   mao_call, mao_returns>>

\* execute_sequential is entered: results = [], current_context = task.context
CallSequential(agent_order) ==
    /\ mao_call = None
    /\ Len(mao_returns) < MaxRuns
    /\ mao_call' = [mode |-> "sequential",
                    task |-> ParentTask(Len(mao_returns) + 1),
                    agent_order |-> agent_order, i |-> 1, results |-> <<>>,
                    started |-> <<>>, log_start |-> Len(execution_log)]
    /\ UNCHANGED <<applied, trajectories, textVars, aggVars, adviceVars, detectVars,
                   tool_registry, sub_agents, calls, returned, orchVars, threads,
                   task_history, mao_agents, execution_log,
                   context_metadata, mao_returns>>

\* one iteration of the loop of execute_sequential
SequentialStep(delegating, faulty) ==
    /\ mao_call # None
    /\ mao_call.mode = "sequential"
    /\ mao_call.i <= Len(mao_call.agent_order)
    /\ \E agent_id \in {mao_call.agent_order[mao_call.i]} :
         IF agent_id \in mao_agents
         THEN \E agent_task \in {AgentTask(mao_call.task, agent_id)} :
              \E out \in {execute(ExecEnv(delegating, faulty, "verify", [x \in ExecAgents |-> "none"]), agent_id, agent_task, 1)} :
                /\ task_history' = HistoryAfter(task_history, out.appended)
                /\ context_metadata' = WithPreviousResult(context_metadata, out.returned)
                /\ execution_log' = _log_execution(execution_log, agent_id, out.returned)
                /\ mao_call' = [mao_call EXCEPT
                      !.i = @ + 1,
                      !.results = Append(@, out.returned),
                      !.started = Append(@, [agent_id |-> agent_id,
                                             task |-> agent_task,
                                             seen |-> context_metadata])]
         ELSE /\ mao_call' = [mao_call EXCEPT !.i = @ + 1]
              /\ UNCHANGED <<task_history, context_metadata, execution_log>>
    /\ UNCHANGED <<applied, trajectories, textVars, aggVars, adviceVars, detectVars,
                   tool_registry, sub_agents, calls, returned, orchVars, threads,
                   mao_agents, mao_returns>>

\* return results
SequentialReturn ==
    /\ mao_call # None
    /\ mao_call.mode = "sequential"
    /\ mao_call.i > Len(mao_call.agent_order)
    /\ mao_returns' = Append(mao_returns,
          [mode |-> "sequential", agent_order |-> mao_call.agent_order,
           results |-> mao_call.results, log_start |-> mao_call.log_start,
           completion |-> <<>>])
    /\ mao_call' = None
    /\ UNCHANGED <<applied, trajectories, textVars, aggVars, adviceVars, detectVars,
                   tool_registry, sub_agents, calls, returned, orchVars, threads,
                   task_history, mao_agents, execution_log,
                   context_metadata>>

\* execute_parallel up to the await: a derived task and a coroutine for
\* each registered id of agent_ids
CallParallel(agent_ids) ==
    /\ mao_call = None
    /\ Len(mao_returns) < MaxRuns
    /\ mao_call' =
          [mode |-> "parallel", task |-> ParentTask(Len(mao_returns) + 1),
           agent_order |-> agent_ids,
           tasks |-> [k \in 1..Len(RegisteredOf(agent_ids)) |->
                        [agent_id |-> RegisteredOf(agent_ids)[k],
                         task |-> AgentTask(ParentTask(Len(mao_returns) + 1),
                                            RegisteredOf(agent_ids)[k])]],
           slots |-> [k \in 1..Len(RegisteredOf(agent_ids)) |-> None],
           completion |-> <<>>, log_start |-> Len(execution_log)]
    /\ UNCHANGED <<applied, trajectories, textVars, aggVars, adviceVars, detectVars,
                   tool_registry, sub_agents, calls, returned, orchVars, threads,
                   task_history, mao_agents, execution_log,
                   context_metadata, mao_returns>>

\* the executor thread of one coroutine runs its agent's execute
ParallelCompletes(k, delegating, faulty) ==
    /\ mao_call # None
    /\ mao_call.mode = "parallel"
    /\ k \in 1..Len(mao_call.tasks)
    /\ mao_call.slots[k] = None
    /\ \E out \in {execute(ExecEnv(delegating, faulty, "verify", [x \in ExecAgents |-> "none"]), mao_call.tasks[k].agent_id,
                           mao_call.tasks[k].task, 1)} :
         /\ task_history' = HistoryAfter(task_history, out.appended)
         /\ mao_call' = [mao_call EXCEPT !.slots[k] = out.returned,
                                         !.completion = Append(@, k)]
    /\ UNCHANGED <<applied, trajectories, textVars, aggVars, adviceVars, detectVars,
                   tool_registry, sub_agents, calls, returned, orchVars, threads,
                   mao_agents, execution_log, context_metadata,
                   mao_returns>>

\* gather has every result: log them and return list(results)
ParallelReturn ==
    /\ mao_call # None
    /\ mao_call.mode = "parallel"
    /\ \A k \in 1..Len(mao_call.tasks) : mao_call.slots[k] # None
    /\ execution_log' = LogAll(execution_log, gather(mao_call.slots, mao_call.completion), 1)
    /\ mao_returns' = Append(mao_returns,
          [mode |-> "parallel", agent_order |-> mao_call.agent_order,
           results |-> gather(mao_call.slots, mao_call.completion), log_start |-> mao_call.log_start,
           completion |-> mao_call.completion])
    /\ mao_call' = None
    /\ UNCHANGED <<applied, trajectories, textVars, aggVars, adviceVars, detectVars,
                   tool_registry, sub_agents, calls, returned, orchVars, threads,
                   task_history, mao_agents, context_metadata>>

\* execute_hierarchical: ValueError for an unregistered root, else the root
\* agent's execute on the task itself and one log entry
Hierarchical(root_agent_id, delegating, faulty) ==
    /\ mao_call = None
    /\ Len(mao_returns) < MaxRuns
    /\ IF root_agent_id \notin mao_agents
       THEN /\ mao_returns' = Append(mao_returns,
                  [mode |-> "hierarchical", agent_order |-> <<root_agent_id>>,
                   results |-> <<>>, log_start |-> Len(execution_log),
                   completion |-> <<>>,
                   raised |-> "Agent " \o root_agent_id \o " not found"])
            /\ UNCHANGED <<task_history, execution_log>>
       ELSE \E out \in {execute(ExecEnv(delegating, faulty, "verify", [x \in ExecAgents |-> "none"]), root_agent_id,
                                ParentTask(Len(mao_returns) + 1), 1)} :
              /\ task_history' = HistoryAfter(task_history, out.appended)
              /\ execution_log' = _log_execution(execution_log, root_agent_id,
                                                 out.returned)
              /\ mao_returns' = Append(mao_returns,
                    [mode |-> "hierarchical", agent_order |-> <<root_agent_id>>,
                     results |-> <<out.returned>>,
                     log_start |-> Len(execution_log), completion |-> <<>>])
    /\ UNCHANGED <<applied, trajectories, textVars, aggVars, adviceVars, detectVars,
                   tool_registry, sub_agents, calls, returned, orchVars, threads,
                   mao_agents, context_metadata, mao_call>>

MaoNext ==
    \/ \E a \in ExecAgents : RegisterAgent(a)
    \/ \E agent_order \in AgentOrders : CallSequential(agent_order)
    \/ \E delegating \in SUBSET {"upi_fraud_agent"}, faulty \in {"none", "upi_fraud_agent"} :
          SequentialStep(delegating, faulty)
    \/ SequentialReturn
    \/ \E agent_ids \in AgentOrders : CallParallel(agent_ids)
    \/ \E k \in 1..MaxOrder, delegating \in SUBSET {"upi_fraud_agent"},
          faulty \in {"none", "upi_fraud_agent"} : ParallelCompletes(k, delegating, faulty)
    \/ ParallelReturn
    \/ \E root_agent_id \in MaoIds, delegating \in SUBSET {"upi_fraud_agent"},
          faulty \in {"none", "upi_fraud_agent"} : Hierarchical(root_agent_id, delegating, faulty)

SpecMao == MaoInit /\ [][MaoNext]_vars

\* C12: execute_sequential runs the registered agents of agent_order one
\* after another in list order, each on its own derived sub-task; when the
\* (k+1)-th agent starts, the shared context's metadata key
\* 'previous_result' holds the result payload of the k-th agent, and once
\* the list is exhausted it holds the payload of the last agent run.
C12_SequentialHandsOver ==
    (mao_call # None /\ mao_call.mode = "sequential") =>
        /\ [k \in 1..Len(mao_call.started) |-> mao_call.started[k].agent_id]
              = RegisteredOf(SubSeq(mao_call.agent_order, 1, mao_call.i - 1))
        /\ Len(mao_call.results) = Len(mao_call.started)
        /\ \A k \in 1..Len(mao_call.started) :
              /\ mao_call.started[k].task
                    = AgentTask(mao_call.task, mao_call.started[k].agent_id)
              /\ mao_call.results[k].task_id = mao_call.started[k].task.task_id
              /\ mao_call.results[k].agent_id = mao_call.started[k].agent_id
        /\ \A k \in 2..Len(mao_call.started) :
              /\ "previous_result" \in DOMAIN mao_call.started[k].seen
              /\ mao_call.started[k].seen.previous_result
                    = mao_call.results[k - 1].result
        /\ (mao_call.i > Len(mao_call.agent_order) /\ mao_call.results # <<>>) =>
              /\ "previous_result" \in DOMAIN context_metadata
              /\ context_metadata.previous_result
                    = mao_call.results[Len(mao_call.results)].result

\* a list of three ids whose middle one is not registered has been run to
\* its end: the second agent saw the payload of the first, and the context
\* now holds the different payload of the second
C12_Witness ==
    /\ mao_call # None
    /\ mao_call.mode = "sequential"
    /\ Len(mao_call.agent_order) = 3
    /\ mao_call.agent_order[2] \notin mao_agents
    /\ mao_call.i > Len(mao_call.agent_order)
    /\ Len(mao_call.results) = 2
    /\ mao_call.started[2].seen.previous_result = mao_call.results[1].result
    /\ mao_call.results[1].result # mao_call.results[2].result
    /\ context_metadata.previous_result = mao_call.results[2].result

\* the log after is the log before with entries added at its end
AppendOnly(before, after) ==
    /\ Len(after) >= Len(before)
    /\ SubSeq(after, 1, Len(before)) = before

\* the entries after position ret.log_start are one per returned
\* TaskResult, in the order returned, and the results returned are those of
\* the registered ids of the declared list, in the order of that list
ExtendedBy(after, ret, registered) ==
    /\ Len(after) = ret.log_start + Len(ret.results)
    /\ \A k \in 1..Len(ret.results) :
          after[ret.log_start + k]
              = [agent_id |-> ret.results[k].agent_id,
                 task_id |-> ret.results[k].task_id,
                 status |-> IF ret.results[k].status = "COMPLETED"
                            THEN "completed" ELSE "failed",
                 confidence |-> ret.results[k].confidence]
    /\ [k \in 1..Len(ret.results) |-> ret.results[k].agent_id]
          = SelectSeq(ret.agent_order, LAMBDA id : id \in registered)

\* C13: the audit log is append-only and in invocation order: every step
\* leaves the earlier entries unchanged at their positions, and a call that
\* returns has extended the log by exactly one entry per TaskResult it
\* returns, in the order of the declared agent list, whatever the order in
\* which parallel agents completed.
C13_LogAppendOnlyInOrder ==
    [][/\ AppendOnly(execution_log, execution_log')
       /\ Len(mao_returns') > Len(mao_returns) =>
             ExtendedBy(execution_log', mao_returns'[Len(mao_returns')],
                        mao_agents)]_vars

\* a second call, parallel over two different agents, whose second agent
\* completed first, has returned and logged them in declared order after
\* the entries of the first call
C13_Witness ==
    /\ Len(mao_returns) = 2
    /\ mao_returns[1].results # <<>>
    /\ mao_returns[2].mode = "parallel"
    /\ mao_returns[2].completion = <<2, 1>>
    /\ mao_returns[2].results[1].agent_id = mao_returns[2].agent_order[1]
    /\ mao_returns[2].results[2].agent_id = mao_returns[2].agent_order[2]
    /\ mao_returns[2].agent_order[1] # mao_returns[2].agent_order[2]
    /\ Len(execution_log) = Len(mao_returns[1].results) + 2
    /\ execution_log[Len(execution_log)].agent_id = mao_returns[2].agent_order[2]

\* C16: within one run task ids are unique: the sub-tasks derived by
\* execute_sequential and execute_parallel for one parent task have pairwise
\* distinct ids for every agent list, and a task handed to a sub-agent by
\* delegation has an id different from the delegating agent's task, so that
\* no id appears in the histories of two agents.
C16_TaskIdsUnique ==
    /\ \A n \in 1..Len(mao_returns) :
          \A j, k \in 1..Len(mao_returns[n].results) :
             j # k => mao_returns[n].results[j].task_id
                        # mao_returns[n].results[k].task_id
    /\ \A a, b \in ExecAgents :
          a # b => \A j \in 1..Len(task_history[a]), k \in 1..Len(task_history[b]) :
                      task_history[a][j].task_id # task_history[b][k].task_id

\* what the derived ids are: the parent's id and the agent's id, equal for
\* two entries of a list exactly when they name the same agent
DerivedIdsAsBuilt ==
    \A n \in 1..Len(mao_returns) :
        mao_returns[n].mode # "hierarchical" =>
          \A j \in 1..Len(mao_returns[n].results) :
             mao_returns[n].results[j].task_id
                = "t" \o ToString(n) \o "_" \o mao_returns[n].results[j].agent_id

\* what a returning call has done, given the agents registered when it ran:
\* a sequential or parallel call returns one TaskResult for each listed id
\* that is registered, in list order, and has logged entries of registered
\* agents only; a hierarchical call on an unregistered root has raised,
\* returned nothing and touched neither the log nor a task history
SkipsUnregistered(ret, registered, log_before, log_after, history_before, history_after) ==
    /\ ret.mode \in {"sequential", "parallel"} =>
          /\ "raised" \notin DOMAIN ret
          /\ Len(ret.results)
                = Cardinality({k \in 1..Len(ret.agent_order) :
                                  ret.agent_order[k] \in registered})
          /\ [k \in 1..Len(ret.results) |-> ret.results[k].agent_id]
                = SelectSeq(ret.agent_order, LAMBDA id : id \in registered)
          /\ \A k \in (ret.log_start + 1)..Len(log_after) :
                log_after[k].agent_id \in registered
    /\ (ret.mode = "hierarchical" /\ ret.agent_order[1] \notin registered) =>
          /\ "raised" \in DOMAIN ret
          /\ ret.results = <<>>
          /\ log_after = log_before
          /\ history_after = history_before

\* C30: an id that is not registered with the MultiAgentOrchestrator yields
\* no TaskResult in a returned list and no audit-log entry:
\* execute_sequential and execute_parallel skip it and still run every
\* registered agent of the list, returning one result per registered id
\* listed; execute_hierarchical with an unregistered root raises and leaves
\* the audit log and every task history as they were.
C30_UnregisteredSkipped ==
    [][/\ \A k \in (Len(execution_log) + 1)..Len(execution_log') :
             execution_log'[k].agent_id \in mao_agents
       /\ Len(mao_returns') > Len(mao_returns) =>
             SkipsUnregistered(mao_returns'[Len(mao_returns')], mao_agents,
                               execution_log, execution_log',
                               task_history, task_history')]_vars

\* a parallel call over a registered agent, an unregistered id and another
\* registered agent has returned two results, and a hierarchical call on
\* the unregistered id has raised after it, the log still at two entries
C30_Witness ==
    /\ Len(mao_returns) = 2
    /\ mao_returns[1].mode = "parallel"
    /\ Len(mao_returns[1].agent_order) = 3
    /\ mao_returns[1].agent_order[2] \notin mao_agents
    /\ Len(mao_returns[1].results) = 2
    /\ mao_returns[1].results[2].agent_id = mao_returns[1].agent_order[3]
    /\ mao_returns[2].mode = "hierarchical"
    /\ "raised" \in DOMAIN mao_returns[2]
    /\ Len(execution_log) = 2

\* ------------------------------ MultiAgentOrchestrator.aggregate_results
MaxResults == 3

MaxAggregations == 1

\* the TaskResults handed to aggregate_results: of each agent, a direct
\* response scored 0.8, one scored 0.5 by an overriding agent, a completed
\* delegation to an unknown id (0.0) and a failed call (0.0)
AggregableResults ==
    {[task_id |-> "t1", agent_id |-> a, status |-> "COMPLETED",
      result |-> [response |-> a \o c.text], confidence |-> c.confidence,
      reasoning |-> "Generating direct response"] :
        a \in ExecAgents,
        c \in {[text |-> " scored", confidence |-> 50000],
               [text |-> " answered", confidence |-> 80000]}}
    \cup {[task_id |-> "t1", agent_id |-> a, status |-> "COMPLETED",
           result |-> [error |-> "Agent " \o a \o "_helper not found"],
           confidence |-> 0,
           reasoning |-> "Delegating as planned"] : a \in ExecAgents}
    \cup {FailedResult(a, [task_id |-> "t1"], "boom") : a \in ExecAgents}

ResultLists ==
    UNION {[1..n -> AggregableResults] : n \in 0..MaxResults}

RECURSIVE SumConfidence(_, _, _)
\* sum(r.confidence for r in results), from the left
SumConfidence(task_results, k, total_confidence) ==
    IF k > Len(task_results) THEN total_confidence
    ELSE SumConfidence(task_results, k + 1,
                       total_confidence + task_results[k].confidence)

\* the last of the results whose confidence is the lowest
LatestLowest(task_results) ==
    task_results[CHOOSE i \in 1..Len(task_results) :
        \A j \in 1..Len(task_results) :
            /\ task_results[i].confidence <= task_results[j].confidence
            /\ j > i => task_results[i].confidence < task_results[j].confidence]

\* max(results, key=lambda r: 1 - r.confidence): the first of the results
\* whose key is the greatest
max_risk_result(task_results) ==
    task_results[CHOOSE i \in 1..Len(task_results) :
        \A j \in 1..Len(task_results) :
            /\ 100000 - task_results[j].confidence
                  <= 100000 - task_results[i].confidence
            /\ j < i => 100000 - task_results[j].confidence
                            < 100000 - task_results[i].confidence]

\* MultiAgentOrchestrator.aggregate_results. avg_confidence, the quotient
\* total_confidence / len(results), is kept as its two terms;
\* execution_times, wall-clock readings, are left out.
aggregate_results(task_results) ==
    IF task_results = <<>> THEN [status |-> "no_results"]
    ELSE [status |-> "aggregated",
          agent_count |-> Len(task_results),
          avg_confidence |-> [total_confidence |-> SumConfidence(task_results, 1, 0),
                              len |-> Len(task_results)],
          primary_result |-> max_risk_result(task_results).result,
          all_findings |-> [i \in 1..Len(task_results) |->
                              [agent |-> task_results[i].agent_id,
                               result |-> task_results[i].result,
                               confidence |-> task_results[i].confidence]]]

AggregationInit ==
    /\ applied = {}
    /\ trajectories = <<>>
    /\ TextIdle
    /\ AggIdle
    /\ ExecIdle
    /\ OrchIdle
    /\ ExtIdle

\* a caller hands a list of TaskResults to aggregate_results
MaoAggregate(task_results) ==
    /\ Len(mao_returns) < MaxAggregations
    /\ mao_returns' = Append(mao_returns,
                         [mode |-> "aggregate", results |-> task_results,
                          aggregated |-> aggregate_results(task_results)])
    /\ UNCHANGED <<applied, trajectories, textVars, aggVars, execVars, orchVars,
                   threads, adviceVars, detectVars, mao_agents, execution_log,
                   context_metadata, mao_call>>

AggregationNext == \E task_results \in ResultLists : MaoAggregate(task_results)

SpecAggregation == AggregationInit /\ [][AggregationNext]_vars

RECURSIVE ConfidenceFrom(_, _)
\* the confidences of the results from the k-th on, added up
ConfidenceFrom(task_results, k) ==
    IF k > Len(task_results) THEN 0
    ELSE task_results[k].confidence + ConfidenceFrom(task_results, k + 1)

\* C27: for a non-empty list aggregate_results returns avg_confidence equal
\* to the mean of the results' confidences and primary_result equal to the
\* payload of the result with the lowest confidence, the earliest of them on
\* a tie; for an empty list it returns the status 'no_results' and nothing
\* else.
C27_AggregateResults ==
    \A k \in 1..Len(mao_returns) :
        mao_returns[k].mode = "aggregate" =>
            IF mao_returns[k].results = <<>>
            THEN mao_returns[k].aggregated = [status |-> "no_results"]
            ELSE /\ mao_returns[k].aggregated.status = "aggregated"
                 /\ mao_returns[k].aggregated.avg_confidence.len
                        = Len(mao_returns[k].results)
                 /\ mao_returns[k].aggregated.avg_confidence.total_confidence
                        = ConfidenceFrom(mao_returns[k].results, 1)
                 /\ \E i \in 1..Len(mao_returns[k].results) :
                      /\ mao_returns[k].aggregated.primary_result
                            = mao_returns[k].results[i].result
                      /\ \A j \in 1..Len(mao_returns[k].results) :
                           /\ mao_returns[k].results[i].confidence
                                <= mao_returns[k].results[j].confidence
                           /\ j < i => mao_returns[k].results[i].confidence
                                         < mao_returns[k].results[j].confidence

\* three results of which the second and the third tie at the lowest
\* confidence with different payloads: the second is the primary one
C27_Witness ==
    \E k \in 1..Len(mao_returns) :
        /\ mao_returns[k].mode = "aggregate"
        /\ Len(mao_returns[k].results) = 3
        /\ mao_returns[k].results[1].confidence = 80000
        /\ mao_returns[k].results[2].confidence = 0
        /\ mao_returns[k].results[3].confidence = 0
        /\ mao_returns[k].results[2].result # mao_returns[k].results[3].result
        /\ mao_returns[k].aggregated.primary_result = mao_returns[k].results[2].result
        /\ mao_returns[k].aggregated.avg_confidence
              = [total_confidence |-> 80000, len |-> 3]
\* ------------------------------------------ analyze and analyze_async
MaxAnalyses == 2

OrchContents == { <<"h","e","l","l","o">>, <<"c","o","l","l","e","c","t"," ","p","r","i","z","e">>, <<"K","Y","C"," ","u","p","d","a","t","e">>, <<"C","B","I"," ","a","r","r","e","s","t"," ","p","a","y">> }

Ages == {45, 65}

\* the trajectory file is missing, or holds the first entries of the pool
OrchLibraries == {<<>>, SubSeq(TrajectoryPool, 1, MaxTrajectories)}

\* _route_to_agents, the specialists' findings and _match_trajectory,
\* tabulated over the inputs of the analyses
Routes == [text \in OrchContents |-> _route_to_agents(text)]

Findings == [text \in OrchContents |-> AnalyzeLoop(text)]

Matches ==
    [library \in OrchLibraries |->
        [text \in OrchContents |-> _match_trajectory(library, text)]]

\* the counters after an analysis that produced result, and the result
Counted(st, result) ==
    [stats |-> UpdateStats([st EXCEPT !.total_analyses = @ + 1],
                           result.threat_level),
     result |-> result]

\* an analysis that reads the counters: after a detected threat every
\* later verdict is escalated
AnalyzeEscalating(st, library, text, user_age) ==
    Counted(st,
        IF st.threats_detected > 0
        THEN [ProtectionResult(Matches[library][text], user_age, Findings[text])
                 EXCEPT !.threat_level = "CRITICAL", !.emergency_action = TRUE]
        ELSE ProtectionResult(Matches[library][text], user_age, Findings[text]))

\* FinancialBodyguardOrchestrator.analyze on an orchestrator whose counters
\* are st: the counters after the call and the verdict returned
analyze(st, library, text, user_age) ==
    Counted(st, ProtectionResult(Matches[library][text], user_age, Findings[text]))

\* a constructed orchestrator: five specialists, zero counters
OrchInit ==
    /\ applied = {}
    /\ trajectories \in OrchLibraries
    /\ TextIdle
    /\ AggIdle
    /\ ExtIdle
    /\ tool_registry = [t \in ToolNames |-> "absent"]
    /\ sub_agents = [a \in {"financial_bodyguard"} |->
                        [i \in 1..Len(SpecialistKeys) |-> Specialists[SpecialistKeys[i]]]]
    /\ task_history = [a \in SpecialistIds |-> <<>>]
    /\ calls = <<>>
    /\ returned = <<>>
    /\ client \in {"none", "ok"}
    /\ stats = ZeroStats
    /\ pending = None
    /\ verdicts = {}
    /\ tally = ZeroStats
    /\ threads = <<>>

\* some specialist completed before one that was routed ahead of it
OutOfOrder(order) == \E i, j \in 1..Len(order) : i < j /\ order[i] > order[j]

\* the caller receives a verdict
Return(mode, text, user_age, order, result) ==
    /\ verdicts' = verdicts \cup
          {[mode |-> mode, content |-> text, user_age |-> user_age,
            out_of_order |-> OutOfOrder(order), result |-> result]}
    /\ tally' = UpdateStats([tally EXCEPT !.total_analyses = @ + 1],
                            result.threat_level)

\* FinancialBodyguardOrchestrator.analyze
Analyze(text, user_age) ==
    /\ stats.total_analyses < MaxAnalyses
    /\ \E out \in {analyze(stats, trajectories, text, user_age)} :
           /\ stats' = out.stats
           /\ Return("sync", text, user_age, <<>>, out.result)
    /\ UNCHANGED <<applied, trajectories, textVars, aggVars, extVars, execVars, client,
                   pending, threads>>

\* analyze_async up to its await: count, route, one execute_async per
\* routed specialist
AnalyzeAsyncStart(text, user_age) ==
    /\ pending = None
    /\ stats.total_analyses < MaxAnalyses
    /\ stats' = [stats EXCEPT !.total_analyses = @ + 1]
    /\ pending' = [content |-> text, user_age |-> user_age,
                   agents |-> Routes[text],
                   slots |-> [i \in 1..Len(Routes[text]) |-> None],
                   order |-> <<>>]
    /\ UNCHANGED <<applied, trajectories, textVars, aggVars, extVars, execVars, client,
                   verdicts, tally, threads>>

\* one execute_async finishes in the executor: BaseAgent.execute of the
\* i-th routed specialist
SpecialistCompletes(i) ==
    /\ pending # None
    /\ i \in 1..Len(pending.agents)
    /\ pending.slots[i] = None
    /\ \E out \in {execute(SpecialistEnv(tool_registry, client),
                           Specialists[pending.agents[i]],
                           AnalysisTask(pending.agents[i], pending.content,
                                        pending.user_age), 1)} :
           /\ pending' = [pending EXCEPT !.slots[i] = out.returned,
                                         !.order = Append(@, i)]
           /\ task_history' = HistoryAfter(task_history, out.appended)
    /\ UNCHANGED <<applied, trajectories, textVars, aggVars, extVars, tool_registry,
                   sub_agents, calls, returned, client, stats, verdicts, tally,
                   threads>>

\* the result dicts of the gathered TaskResults
ResultsOf(gathered) == [i \in 1..Len(gathered) |-> gathered[i].result]

\* analyze_async after its await: gather, then the tail it shares with
\* analyze, without the stats update
AnalyzeAsyncFinish ==
    /\ pending # None
    /\ \A i \in 1..Len(pending.agents) : pending.slots[i] # None
    /\ Return("async", pending.content, pending.user_age, pending.order,
              ProtectionResult(Matches[trajectories][pending.content],
                               pending.user_age,
                               ResultsOf(gather(pending.slots, pending.order))))
    /\ pending' = None
    /\ UNCHANGED <<applied, trajectories, textVars, aggVars, extVars, execVars, client,
                   stats, threads>>

OrchNext ==
    \/ Register("upi_pattern_matcher", "ok")
    \/ \E text \in OrchContents, user_age \in Ages : Analyze(text, user_age)
    \/ \E text \in OrchContents, user_age \in Ages : AnalyzeAsyncStart(text, user_age)
    \/ \E i \in 1..Len(SpecialistKeys) : SpecialistCompletes(i)
    \/ AnalyzeAsyncFinish

SpecOrch == OrchInit /\ [][OrchNext]_vars

\* the risk score _aggregate_results reads from a finding, and its label
RiskOf(finding) == Get(finding, "risk_score", 0)

LabelOf(finding) == Get(finding, "agent", "unknown")

\* the finding was produced by the specialist routed under key: it carries
\* that agent's id, or it is what that agent's tools returned
ProducedBy(finding, key) ==
    IF "agent" \in DOMAIN finding THEN finding.agent = Specialists[key]
    ELSE \A t \in DOMAIN finding :
            \E k \in 1..Len(AgentTools(Specialists[key])) :
                AgentTools(Specialists[key])[k] = t

\* C3: whatever order the specialists of an analyze_async complete in,
\* agent_findings lists their findings in routing order and primary_threat
\* names the first finding, in routing order, that attains the maximum risk.
C3_RoutingOrderKept ==
    \A v \in verdicts :
        v.mode = "async" =>
            LET route == Routes[v.content]
                found == v.result.agent_findings
            IN  /\ Len(found) = Len(route)
                /\ \A i \in 1..Len(route) : ProducedBy(found[i], route[i])
                /\ \E i \in 1..Len(found) :
                      /\ \A j \in 1..Len(found) : RiskOf(found[j]) <= RiskOf(found[i])
                      /\ \A j \in 1..(i - 1) : RiskOf(found[j]) < RiskOf(found[i])
                      /\ v.result.primary_threat = LabelOf(found[i])

\* the specialists completed out of routing order, and the one routed
\* first is still the primary threat of a tie
C3_Witness ==
    \E v \in verdicts :
        /\ v.mode = "async"
        /\ v.out_of_order
        /\ RiskOf(v.result.agent_findings[1]) = RiskOf(v.result.agent_findings[2])
        /\ v.result.primary_threat = Specialists[Routes[v.content][1]]

\* C5: once every analysis issued through analyze or analyze_async has
\* completed, total_analyses is the number of analyses, threats_detected the
\* number of HIGH or CRITICAL verdicts and critical_blocks the number of
\* CRITICAL verdicts.
C5_CountersMatchVerdicts ==
    pending = None => stats = tally

C8_AsyncEqualsSync ==
    \A v \in verdicts :
        v.mode = "async" =>
            \A s \in {analyze(ZeroStats, trajectories, v.content, v.user_age).result} :
                /\ v.result.threat_level = s.threat_level
                /\ v.result.risk_score = s.risk_score
                /\ v.result.primary_threat = s.primary_threat
                /\ v.result.matched_trajectory = s.matched_trajectory
                /\ v.result.recommendations = s.recommendations
                /\ v.result.summary = s.summary
                /\ v.result.hindi_summary = s.hindi_summary
                /\ v.result.emergency_action = s.emergency_action

\* ------------------------------------- analyze from several threads
\* Each `self.stats[k] += 1` of analyze is a load of the counter followed
\* by a store of the loaded value plus one; nothing in the orchestrator
\* makes the pair atomic, so another thread may run between the two.
NumThreads == 2

Threads == 1..NumThreads

\* a counter table that counts a threat as a block and a block as a threat
CountsBlockFirst(pc) ==
    CASE pc \in {"load_total", "store_total"} -> "total_analyses"
      [] pc \in {"load_threats", "store_threats"} -> "critical_blocks"
      [] pc \in {"load_critical", "store_critical"} -> "threats_detected"

\* the counter a thread is about to load or store, by its position
CounterAt(pc) ==
    CASE pc \in {"load_total", "store_total"} -> "total_analyses"
      [] pc \in {"load_threats", "store_threats"} -> "threats_detected"
      [] pc \in {"load_critical", "store_critical"} -> "critical_blocks"

\* where analyze goes after the store of a counter
AfterStore(pc, threat_level) ==
    CASE pc = "store_total" -> "specialists"
      [] pc = "store_threats" ->
            IF threat_level = "CRITICAL" THEN "load_critical" ELSE "return"
      [] pc = "store_critical" -> "return"

\* one orchestrator, every thread at the first line of analyze
ThreadInit ==
    /\ applied = {}
    /\ trajectories \in OrchLibraries
    /\ TextIdle
    /\ AggIdle
    /\ ExtIdle
    /\ ExecIdle
    /\ client = "none"
    /\ stats = ZeroStats
    /\ pending = None
    /\ verdicts = {}
    /\ tally = ZeroStats
    /\ threads \in [Threads -> { [pc |-> "load_total", content |-> text,
                                  user_age |-> user_age, loaded |-> 0,
                                  threat_level |-> "none"] :
                                    text \in OrchContents, user_age \in Ages }]

\* the read half of `self.stats[k] += 1`
LoadCounter(t) ==
    /\ threads[t].pc \in {"load_total", "load_threats", "load_critical"}
    /\ threads' = [threads EXCEPT
          ![t].loaded = stats[CounterAt(threads[t].pc)],
          ![t].pc = CASE threads[t].pc = "load_total" -> "store_total"
                      [] threads[t].pc = "load_threats" -> "store_threats"
                      [] threads[t].pc = "load_critical" -> "store_critical"]
    /\ UNCHANGED <<applied, trajectories, textVars, aggVars, extVars, execVars, client,
                   stats, pending, verdicts, tally>>

\* the write half
StoreCounter(t) ==
    /\ threads[t].pc \in {"store_total", "store_threats", "store_critical"}
    /\ stats' = [stats EXCEPT ![CounterAt(threads[t].pc)] = threads[t].loaded + 1]
    /\ threads' = [threads EXCEPT
          ![t].pc = AfterStore(threads[t].pc, threads[t].threat_level)]
    /\ UNCHANGED <<applied, trajectories, textVars, aggVars, extVars, execVars, client,
                   pending, verdicts, tally>>

\* routing, the specialists, aggregation, matching, advice and summaries:
\* they touch no shared state
RunSpecialists(t) ==
    /\ threads[t].pc = "specialists"
    /\ LET result == ProtectionResult(Matches[trajectories][threads[t].content],
                                      threads[t].user_age,
                                      Findings[threads[t].content])
       IN  threads' = [threads EXCEPT
              ![t].threat_level = result.threat_level,
              ![t].pc = IF result.threat_level \in {"HIGH", "CRITICAL"}
                        THEN "load_threats" ELSE "return"]
    /\ UNCHANGED <<applied, trajectories, textVars, aggVars, extVars, execVars, orchVars>>

\* analyze returns its ProtectionResult to the thread's caller
ThreadReturn(t) ==
    /\ threads[t].pc = "return"
    /\ tally' = UpdateStats([tally EXCEPT !.total_analyses = @ + 1],
                            threads[t].threat_level)
    /\ threads' = [threads EXCEPT ![t].pc = "done"]
    /\ UNCHANGED <<applied, trajectories, textVars, aggVars, extVars, execVars, client,
                   stats, pending, verdicts>>

ThreadNext ==
    \E t \in Threads :
        \/ LoadCounter(t)
        \/ StoreCounter(t)
        \/ RunSpecialists(t)
        \/ ThreadReturn(t)

SpecThreads == ThreadInit /\ [][ThreadNext]_vars

\* C6: when the analyses of all threads have returned, total_analyses has
\* grown by the number of threads, threats_detected by the number of HIGH
\* or CRITICAL verdicts and critical_blocks by the number of CRITICAL ones.
C6_NoLostUpdate ==
    (\A t \in Threads : threads[t].pc = "done") => stats = tally


\* ------------------------------------------- analyze, one call at a time
\* no call of analyze other than t's is between its first line and its
\* return
RunsAlone(t) ==
    \A u \in Threads \ {t} : threads[u].pc \in {"load_total", "done"}

\* the callers take turns: a call of analyze begins only when no other is
\* under way, and is followed line by line
SerialNext ==
    \E t \in Threads :
        /\ RunsAlone(t)
        /\ \/ LoadCounter(t)
           \/ StoreCounter(t)
           \/ RunSpecialists(t)
           \/ ThreadReturn(t)

SpecSerial == ThreadInit /\ [][SerialNext]_vars

\* C29: when the analyses run one at a time on one orchestrator, in every
\* state, those between the counter updates of one analyze call included,
\* critical_blocks <= threats_detected <= total_analyses.
C29_CountersOrdered ==
    /\ stats.critical_blocks <= stats.threats_detected
    /\ stats.threats_detected <= stats.total_analyses

\* the second CRITICAL analysis has counted its threat and not yet its
\* block
C29_Witness ==
    \E t \in Threads :
        /\ threads[t].pc = "load_critical"
        /\ stats = [total_analyses |-> 2, threats_detected |-> 2,
                    critical_blocks |-> 1]
=============================================================================
